---- MODULE Spec2Model ----
(***************************************************************************)
(* A model of ha-config-optimizer: the scan orchestrator (execute_scan,    *)
(* cancel_scan), the suggestion engine (prompt building, chunking,         *)
(* response parsing), the LiteLLM adapter's process-wide authentication    *)
(* and the suggestion acceptance workflow (update_suggestion,              *)
(* apply_suggestion).                                                      *)
(*                                                                         *)
(* Python values are modelled as follows.                                  *)
(*   - None is the string "None"; a key missing from a dict is "ABSENT";   *)
(*     a JSON number is "NUM" (a non-zero number: truthy, not a str).      *)
(*   - Model output text is a sequence of tokens: "[", "]", ",", a         *)
(*     commentary word, a JSON number, a JSON object.  Whitespace is not   *)
(*     represented (json.loads ignores it between tokens).                 *)
(*   - A prompt is its rendered parts and its length in characters.        *)
(***************************************************************************)
EXTENDS Integers, Sequences, FiniteSets, TLC

(***************************************************************************)
(* Bounds of the model.                                                    *)
(***************************************************************************)
MaxItems == 2        \* elements of the model's JSON array
MaxFiles == 3        \* files given to one analysis
MaxScans == 2        \* scans created (POST /scans)
MaxWrites == 3       \* calls of write_yaml_file on one target
MaxCancels == 2      \* calls of cancel_scan on one table
MaxLines == 3        \* lines a vendor sends on one response stream
MaxText == 6         \* characters of a text given to chunk_text
MaxIter == 8         \* iterations of chunk_text's loop that are followed

VARIABLES
    prs,             \* one run of a response parser: input text, kind, result
    eng,             \* one run of analyze_configuration
    settings,        \* app.config.settings, the process's Settings object
    llm_profiles,    \* table llm_profiles
    scans,           \* table scans; the row of scan id i is scans[i]
    suggestions,     \* table suggestions; the row of suggestion id i is suggestions[i]
    diffs,           \* table diffs
    tasks,           \* tasks[i]: the execute_scan coroutine of scan i
    environ,         \* os.environ, shared by every adapter of the process
    calls,           \* calls[i]: the completion requests begun for scan i
    cancelled,       \* the scan ids for which cancel_scan returned True
    written,         \* the writes done by write_yaml_file
    reply,           \* the response to the last suggestion request
    fac,             \* one call of LLMProviderFactory.create_provider
    fs,              \* a target file, its backup and the calls of write_yaml_file
    flt,             \* one call of YAMLIngestService.filter_files
    cn,              \* a scans table and one call of ScanService.cancel_scan on it
    sg,              \* one consumption of an adapter's stream_generate
    ck,              \* one call of BaseLLMProvider.chunk_text
    ws               \* the ScanConnectionManager and its send_to_scan coroutines

parseVars == <<prs>>
engVars == <<eng>>
scanVars == <<settings, llm_profiles, scans, suggestions, diffs, tasks, environ,
              calls, cancelled, written, reply>>
moreVars == <<cn, sg, ck, ws>>
callVars == <<fac, fs, flt, moreVars>>
vars == <<prs, eng, settings, llm_profiles, scans, suggestions, diffs, tasks, environ,
          calls, cancelled, written, reply, fac, fs, flt, cn, sg, ck, ws>>

\* the value of a variable group in a specification that does not use it
PrsIdle == prs = [pc |-> "idle"]
EngIdle == eng = [pc |-> "idle"]
TablesIdle ==
    /\ llm_profiles = <<>> /\ scans = <<>> /\ suggestions = <<>>
    /\ diffs = <<>> /\ tasks = <<>> /\ calls = <<>>
    /\ cancelled = {} /\ written = <<>> /\ reply = <<>>
ScanIdle == settings = <<>> /\ environ = <<>> /\ TablesIdle
FacIdle == fac = [pc |-> "idle"]
FsIdle == fs = [pc |-> "idle"]
FltIdle == flt = [pc |-> "idle"]
CnIdle == cn = [pc |-> "idle"]
SgIdle == sg = [pc |-> "idle"]
CkIdle == ck = [pc |-> "idle"]
WsIdle == ws = [pc |-> "idle"]
MoreIdle == CnIdle /\ SgIdle /\ CkIdle /\ WsIdle
CallIdle == FacIdle /\ FsIdle /\ FltIdle /\ MoreIdle

(***************************************************************************)
(* Python value helpers.                                                   *)
(***************************************************************************)
NonStr == {"ABSENT", "None", "NUM"}

\* isinstance(v, str)
IsStr(v) == v \notin NonStr

\* bool(v) for a value obtained by dict.get(key): a missing key gives None
Truthy(v) == v \notin {"ABSENT", "None", ""}

\* dict.get(key, default): the default only replaces a MISSING key
Get(v, default) == IF v = "ABSENT" THEN default ELSE v

\* dict.get(key): a missing key gives None
GetOrNone(v) == Get(v, "None")

\* str.lower() on the impact texts the model draws
Lower(v) ==
    CASE v = "HIGH" -> "high"
      [] v = "Medium" -> "medium"
      [] v = "Critical" -> "critical"
      [] OTHER -> v

(***************************************************************************)
(* Tokens of a model response.                                             *)
(***************************************************************************)
Blank == [title |-> "ABSENT", description |-> "ABSENT", impact |-> "ABSENT",
          category |-> "ABSENT", file_path |-> "ABSENT", before |-> "ABSENT",
          after |-> "ABSENT", reasoning |-> "ABSENT", trigger |-> "ABSENT",
          condition |-> "ABSENT", action |-> "ABSENT", yaml |-> "ABSENT",
          entities_used |-> "ABSENT"]

Tok(t) == [t |-> t, f |-> <<>>]

Obj(fields) == [t |-> "obj", f |-> fields]

LB == Tok("[")
RB == Tok("]")
COMMA == Tok(",")
WORD == Tok("word")
NUM == Tok("num")
ARR == Tok("arr")      \* a decoded nested array (a non-record element)

(***************************************************************************)
(* json.loads on a token sequence: exactly one JSON value.                 *)
(***************************************************************************)
JsonFail == [ok |-> FALSE, next |-> 0, val |-> WORD, items |-> <<>>]

RECURSIVE ParseValue(_, _)
RECURSIVE ParseElems(_, _, _)
ParseValue(s, i) ==
    IF i > Len(s) THEN JsonFail
    ELSE IF s[i].t \in {"obj", "num"}
         THEN [ok |-> TRUE, next |-> i + 1, val |-> s[i], items |-> <<>>]
    ELSE IF s[i].t = "["
         THEN IF i + 1 <= Len(s) /\ s[i + 1].t = "]"
              THEN [ok |-> TRUE, next |-> i + 2, val |-> ARR, items |-> <<>>]
              ELSE ParseElems(s, i + 1, <<>>)
    ELSE JsonFail

ParseElems(s, i, acc) ==
    LET After(r) ==
            IF ~r.ok \/ r.next > Len(s) THEN JsonFail
            ELSE IF s[r.next].t = ","
                 THEN ParseElems(s, r.next + 1, Append(acc, r.val))
            ELSE IF s[r.next].t = "]"
                 THEN [ok |-> TRUE, next |-> r.next + 1, val |-> ARR,
                       items |-> Append(acc, r.val)]
            ELSE JsonFail
    IN After(ParseValue(s, i))

\* json.loads(json_str): kind is "list", "dict" or "num"; ok = FALSE is
\* json.JSONDecodeError
json_loads(s) ==
    LET Decoded(r) ==
            IF r.ok /\ r.next = Len(s) + 1
            THEN [ok |-> TRUE,
                  kind |-> IF s[1].t = "[" THEN "list"
                           ELSE IF s[1].t = "obj" THEN "dict" ELSE "num",
                  items |-> r.items]
            ELSE [ok |-> FALSE, kind |-> "error", items |-> <<>>]
    IN Decoded(ParseValue(s, 1))

(***************************************************************************)
(* re.search(r'\[.*\]', response, re.DOTALL): the match starts at the      *)
(* leftmost "[" that has a "]" after it and, being greedy, ends at the     *)
(* last "]" of the text.                                                   *)
(***************************************************************************)
Opens(s) == {i \in 1..Len(s) : s[i].t = "[" /\ \E j \in (i + 1)..Len(s) : s[j].t = "]"}

Closes(s) == {j \in 1..Len(s) : s[j].t = "]"}

MinOf(S) == CHOOSE x \in S : \A y \in S : x <= y

MaxOf(S) == CHOOSE x \in S : \A y \in S : x >= y

\* json_str: the matched substring, or the whole response without a match
ExtractJson(s) ==
    IF Opens(s) = {} THEN s
    ELSE SubSeq(s, MinOf(Opens(s)), MaxOf(Closes(s)))

(***************************************************************************)
(* The response parsers of the suggestion engine.  body_md is a markdown   *)
(* string built by "\n".join(parts); only whether the join raises is       *)
(* modelled (str.join raises TypeError on a part that is not a str).       *)
(***************************************************************************)
\* _format_optimization_body raises
OptBodyRaises(f) ==
    \/ ~IsStr(Get(f.description, ""))
    \/ Truthy(f.reasoning) /\ ~IsStr(f.reasoning)
    \/ Truthy(f.before) /\ Truthy(f.after) /\ (~IsStr(f.before) \/ ~IsStr(f.after))

\* _format_automation_body raises
AutoBodyRaises(f) ==
    \/ ~IsStr(Get(f.description, ""))
    \/ Truthy(f.yaml) /\ ~IsStr(f.yaml)

\* item.get("impact", "medium").lower() raises AttributeError
ImpactRaises(f) == ~IsStr(Get(f.impact, "medium"))

\* the suggestion dict built for one record of an optimization response
OptSuggestion(f, scan_id) ==
    [scan_id |-> scan_id,
     type |-> "optimization",
     title |-> Get(f.title, "Optimization Suggestion"),
     impact |-> Lower(Get(f.impact, "medium")),
     status |-> "pending",
     metadata |-> [category |-> GetOrNone(f.category),
                   file_path |-> GetOrNone(f.file_path),
                   before |-> GetOrNone(f.before),
                   after |-> GetOrNone(f.after),
                   reasoning |-> GetOrNone(f.reasoning)]]

\* the suggestion dict built for one record of an automation response
AutoSuggestion(f, scan_id) ==
    [scan_id |-> scan_id,
     type |-> "automation",
     title |-> Get(f.title, "Automation Suggestion"),
     impact |-> Lower(Get(f.impact, "medium")),
     status |-> "pending",
     metadata |-> [category |-> GetOrNone(f.category),
                   trigger |-> GetOrNone(f.trigger),
                   condition |-> GetOrNone(f.condition),
                   action |-> GetOrNone(f.action),
                   yaml |-> GetOrNone(f.yaml),
                   entities_used |-> Get(f.entities_used, "[]")]]

\* the for loop over the decoded list, inside the try: an element that is
\* not a dict is skipped; an exception ends the loop and the suggestions
\* appended so far are returned
RECURSIVE OptLoop(_, _, _, _)
OptLoop(items, i, acc, scan_id) ==
    IF i > Len(items) THEN acc
    ELSE IF items[i].t # "obj" THEN OptLoop(items, i + 1, acc, scan_id)
    ELSE IF OptBodyRaises(items[i].f) \/ ImpactRaises(items[i].f) THEN acc
    ELSE OptLoop(items, i + 1, Append(acc, OptSuggestion(items[i].f, scan_id)), scan_id)

RECURSIVE AutoLoop(_, _, _, _)
AutoLoop(items, i, acc, scan_id) ==
    IF i > Len(items) THEN acc
    ELSE IF items[i].t # "obj" THEN AutoLoop(items, i + 1, acc, scan_id)
    ELSE IF AutoBodyRaises(items[i].f) \/ ImpactRaises(items[i].f) THEN acc
    ELSE AutoLoop(items, i + 1, Append(acc, AutoSuggestion(items[i].f, scan_id)), scan_id)

\* a decoded dict iterates over its keys (str, skipped); iterating a decoded
\* number raises TypeError, caught by "except Exception"
_parse_optimization_response(response, scan_id) ==
    LET Suggestions(parsed) ==
            IF parsed.ok /\ parsed.kind = "list"
            THEN OptLoop(parsed.items, 1, <<>>, scan_id)
            ELSE <<>>
    IN Suggestions(json_loads(ExtractJson(response)))

_parse_automation_response(response, scan_id) ==
    LET Suggestions(parsed) ==
            IF parsed.ok /\ parsed.kind = "list"
            THEN AutoLoop(parsed.items, 1, <<>>, scan_id)
            ELSE <<>>
    IN Suggestions(json_loads(ExtractJson(response)))

(***************************************************************************)
(* Model outputs the parser is run on: commentary, a body, commentary.     *)
(***************************************************************************)
\* commentary around the JSON: empty, prose, prose with a bracketed
\* reference such as "see [note]", a stray "]" and a stray "["
Commentary ==
    {<<>>, <<WORD>>, <<WORD, LB, WORD, RB>>, <<WORD, RB>>, <<LB, WORD>>}

\* array elements, each a token sequence
Elements ==
    {<<Obj([Blank EXCEPT !.title = "Fix X"])>>,
     <<Obj(Blank)>>,
     <<Obj([Blank EXCEPT !.title = "A", !.impact = "None"])>>,
     <<Obj([Blank EXCEPT !.title = "B", !.impact = "NUM"])>>,
     <<Obj([Blank EXCEPT !.title = "C", !.impact = "HIGH", !.description = "d",
                         !.file_path = "configuration.yaml",
                         !.before = "a: 1", !.after = "a: 2"])>>,
     <<Obj([Blank EXCEPT !.title = "D", !.description = "None"])>>,
     <<Obj([Blank EXCEPT !.title = "E", !.impact = "Critical"])>>,
     <<NUM>>,
     <<LB, NUM, RB>>}

ElemSeqs == UNION {[1..n -> Elements] : n \in 0..MaxItems}

RECURSIVE JoinElems(_, _)
JoinElems(es, i) ==
    IF i > Len(es) THEN <<>>
    ELSE es[i] \o (IF i < Len(es) THEN <<COMMA>> ELSE <<>>) \o JoinElems(es, i + 1)

\* the text of a JSON array with the given elements
ArrayText(es) == <<LB>> \o JoinElems(es, 1) \o <<RB>>

\* bodies that are not an array: prose, a bare object, a bare number, an
\* array cut off before its closing bracket
OtherBodies ==
    {<<WORD, WORD>>, <<Obj([Blank EXCEPT !.title = "Fix X"])>>, <<NUM>>,
     <<LB, Obj([Blank EXCEPT !.title = "Fix X"])>>}

ParserInputs ==
    {[prefix |-> p, shape |-> "array", elems |-> es, suffix |-> x,
      response |-> p \o ArrayText(es) \o x] :
        p \in Commentary, es \in ElemSeqs, x \in Commentary}
    \cup
    {[prefix |-> <<>>, shape |-> "other", elems |-> <<>>, suffix |-> <<>>,
      response |-> b] : b \in OtherBodies}

ScanIdsP == {1}

PInit ==
    /\ \E inp \in ParserInputs :
        prs = [pc |-> "input", inp |-> inp, kind |-> "none", out |-> <<>>]
    /\ EngIdle
    /\ ScanIdle
    /\ CallIdle

ParseOptimization ==
    /\ prs.pc = "input"
    /\ \E sid \in ScanIdsP :
        prs' = [prs EXCEPT !.pc = "done", !.kind = "optimization",
                           !.out = _parse_optimization_response(prs.inp.response, sid)]
    /\ UNCHANGED <<engVars, scanVars, callVars>>

ParseAutomation ==
    /\ prs.pc = "input"
    /\ \E sid \in ScanIdsP :
        prs' = [prs EXCEPT !.pc = "done", !.kind = "automation",
                           !.out = _parse_automation_response(prs.inp.response, sid)]
    /\ UNCHANGED <<engVars, scanVars, callVars>>

PNext == ParseOptimization \/ ParseAutomation

SpecParse == PInit /\ [][PNext]_vars

(***************************************************************************)
(* Text.  A string the model needs the length or the shape of is looked up *)
(* in StrInfo: len(s), s.split(".") and its place in sorted() order.       *)
(***************************************************************************)
StrInfo(s) ==
    CASE s = "light.kitchen" -> [len |-> 13, parts |-> <<"light", "kitchen">>, rank |-> 3]
      [] s = "sensor.temp_1" -> [len |-> 13, parts |-> <<"sensor", "temp_1">>, rank |-> 4]
      [] s = "hello" -> [len |-> 5, parts |-> <<"hello">>, rank |-> 2]
      [] s = "a.b.c" -> [len |-> 5, parts |-> <<"a", "b", "c">>, rank |-> 1]
      [] s = "configuration.yaml" -> [len |-> 18, parts |-> <<"configuration", "yaml">>, rank |-> 0]
      [] s = "automations.yaml" -> [len |-> 16, parts |-> <<"automations", "yaml">>, rank |-> 0]
      [] s = "scripts.yaml" -> [len |-> 12, parts |-> <<"scripts", "yaml">>, rank |-> 0]
      [] s = "empty.yaml" -> [len |-> 10, parts |-> <<"empty", "yaml">>, rank |-> 0]
      [] s = "automations" -> [len |-> 11, parts |-> <<s>>, rank |-> 0]
      [] s = "scripts" -> [len |-> 7, parts |-> <<s>>, rank |-> 0]
      [] s = "scenes" -> [len |-> 6, parts |-> <<s>>, rank |-> 0]
      [] s = "configuration" -> [len |-> 13, parts |-> <<s>>, rank |-> 0]
      [] s = "customization" -> [len |-> 13, parts |-> <<s>>, rank |-> 0]
      [] s = "groups" -> [len |-> 6, parts |-> <<s>>, rank |-> 0]
      [] s = "sensors" -> [len |-> 7, parts |-> <<s>>, rank |-> 0]
      [] s = "switches" -> [len |-> 8, parts |-> <<s>>, rank |-> 0]
      [] s = "other" -> [len |-> 5, parts |-> <<s>>, rank |-> 0]
      [] s = "light" -> [len |-> 5, parts |-> <<s>>, rank |-> 0]
      [] s = "sensor" -> [len |-> 6, parts |-> <<s>>, rank |-> 0]

StrLen(s) == StrInfo(s).len

\* str.isalpha() and, for an entity name, name.replace("_", "")
\* .replace("-", "").isalnum(), on the words the model draws
IsAlpha(w) == w \in {"light", "sensor", "hello", "a", "b", "c"}

IsAlnumName(w) == w \in {"kitchen", "temp_1", "b", "c"}

\* len(str(n)) for n >= 0
RECURSIVE DecLen(_)
DecLen(n) == IF n < 10 THEN 1 ELSE 1 + DecLen(n \div 10)

RECURSIVE SumSeq(_)
SumSeq(q) == IF q = <<>> THEN 0 ELSE Head(q) + SumSeq(Tail(q))

\* len(sep.join(parts)) from the parts' lengths
JoinLen(lens, seplen) ==
    IF lens = <<>> THEN 0 ELSE SumSeq(lens) + seplen * (Len(lens) - 1)

SetToSeq(S) ==
    CHOOSE q \in [1..Cardinality(S) -> S] : \A i, j \in 1..Cardinality(S) : i # j => q[i] # q[j]

(***************************************************************************)
(* The configuration directory.  A parsed YAML document is a tree: a text  *)
(* leaf, a number leaf, a dict (its values, in order) or a list.           *)
(***************************************************************************)
YStr(s) == [k |-> "str", s |-> s, items |-> <<>>]

YDict(items) == [k |-> "dict", s |-> "", items |-> items]

YList(items) == [k |-> "list", s |-> "", items |-> items]

\* yaml.load of an empty document
YNone == [k |-> "none", s |-> "", items |-> <<>>]

\* path -> what read_multiple_files finds: the parsed content (None for an
\* empty document), len(_yaml_to_string(content)) and st_size
ConfigFiles ==
    [p \in {"configuration.yaml", "automations.yaml", "scripts.yaml", "empty.yaml"} |->
        CASE p = "configuration.yaml" ->
                [content |-> YDict(<<YStr("hello"), YDict(<<YStr("light.kitchen")>>)>>),
                 yaml_len |-> 420, size |-> 400]
          [] p = "automations.yaml" ->
                [content |-> YList(<<YDict(<<YStr("sensor.temp_1")>>)>>),
                 yaml_len |-> 2100, size |-> 2000]
          [] p = "scripts.yaml" ->
                [content |-> YDict(<<YList(<<YStr("sensor.temp_1"), YStr("a.b.c")>>)>>),
                 yaml_len |-> 9300, size |-> 9000]
          [] p = "empty.yaml" ->
                [content |-> YNone, yaml_len |-> 0, size |-> 0]]

\* the substrings that _classify_yaml_file looks for, found in the path
Keywords(p) ==
    CASE p = "configuration.yaml" -> {"configuration.yaml"}
      [] p = "automations.yaml" -> {"automation"}
      [] p = "scripts.yaml" -> {"script"}
      [] OTHER -> {}

_classify_yaml_file(p) ==
    IF "automation" \in Keywords(p) THEN "automations"
    ELSE IF "script" \in Keywords(p) THEN "scripts"
    ELSE IF "scene" \in Keywords(p) THEN "scenes"
    ELSE IF "configuration.yaml" \in Keywords(p) THEN "configuration"
    ELSE IF "customize" \in Keywords(p) THEN "customization"
    ELSE IF "group" \in Keywords(p) THEN "groups"
    ELSE IF "sensor" \in Keywords(p) THEN "sensors"
    ELSE IF "switch" \in Keywords(p) THEN "switches"
    ELSE "other"

\* read_multiple_files: the paths whose content is not None, in the order
\* given (a dict keeps insertion order)
read_multiple_files(file_paths) ==
    SelectSeq(file_paths,
              LAMBDA p : p \in DOMAIN ConfigFiles /\ ConfigFiles[p].content.k # "none")

\* one entry of context["files"]
FileEntry(p) ==
    [path |-> p, type |-> _classify_yaml_file(p), content |-> ConfigFiles[p].content,
     yaml_len |-> ConfigFiles[p].yaml_len, size |-> ConfigFiles[p].size]

FileTypes(files) == {files[i].type : i \in 1..Len(files)}

_prepare_analysis_context(yaml_data, analysis_type) ==
    LET files == [i \in 1..Len(yaml_data) |-> FileEntry(yaml_data[i])] IN
    [files |-> files,
     summary |-> [total_files |-> Len(files),
                  total_size |-> SumSeq([i \in 1..Len(files) |-> files[i].size]),
                  file_types |-> FileTypes(files)],
     analysis_type |-> analysis_type]

(***************************************************************************)
(* Prompts.  A prompt is what it was rendered from and its length.         *)
(***************************************************************************)
OptHeadChars == 125     \* the 9 heading parts, without the formatted values
OptTailChars == 354     \* the 10 parts of the analysis request
OptFileChars == 17      \* "### ", " (", ")", "```yaml", "```"
AutoHeadChars == 110    \* the 5 heading parts, without the entity count
AutoTailChars == 369    \* the 10 parts of the request

TypesLen(types) == JoinLen([i \in 1..Cardinality(types) |-> StrLen(SetToSeq(types)[i])], 2)

KeyError == [raised |-> TRUE, kind |-> "KeyError", paths |-> <<>>, entities |-> <<>>, len |-> 0]

\* context['summary']['total_size'] raises KeyError when the summary has
\* no such key
_build_optimization_prompt(context) ==
    IF "total_size" \notin DOMAIN context.summary THEN KeyError
    ELSE
    LET files == context.files
        nparts == 9 + 5 * Len(files) + 10
        chars == OptHeadChars + DecLen(context.summary.total_files)
                 + TypesLen(context.summary.file_types)
                 + DecLen(context.summary.total_size)
                 + SumSeq([i \in 1..Len(files) |->
                             OptFileChars + StrLen(files[i].path)
                             + StrLen(files[i].type) + files[i].yaml_len])
                 + OptTailChars
    IN [raised |-> FALSE, kind |-> "optimization",
        paths |-> [i \in 1..Len(files) |-> files[i].path],
        entities |-> <<>>, len |-> chars + (nparts - 1)]

\* the entity test of _find_entities_in_dict
LooksLikeEntity(s) ==
    LET parts == StrInfo(s).parts IN
    /\ Len(parts) = 2
    /\ IsAlpha(parts[1])
    /\ IsAlnumName(parts[2])

RECURSIVE _find_entities_in_dict(_)
RECURSIVE FindInValues(_, _)
RECURSIVE FindInList(_, _)
_find_entities_in_dict(data) ==
    IF data.k # "dict" THEN <<>> ELSE FindInValues(data.items, 1)

\* for key, value in data.items()
FindInValues(values, i) ==
    IF i > Len(values) THEN <<>>
    ELSE LET v == values[i]
             here == IF v.k = "str"
                     THEN (IF LooksLikeEntity(v.s) THEN <<v.s>> ELSE <<>>)
                     ELSE IF v.k = "dict" THEN _find_entities_in_dict(v)
                     ELSE IF v.k = "list" THEN FindInList(v.items, 1)
                     ELSE <<>>
         IN here \o FindInValues(values, i + 1)

\* for i, item in enumerate(value)
FindInList(items, i) ==
    IF i > Len(items) THEN <<>>
    ELSE LET v == items[i]
             here == IF v.k = "dict" THEN _find_entities_in_dict(v)
                     ELSE IF v.k = "str" /\ LooksLikeEntity(v.s) THEN <<v.s>>
                     ELSE <<>>
         IN here \o FindInList(items, i + 1)

Range(q) == {q[i] : i \in 1..Len(q)}

\* sorted(list(S)) for a set of strings
SortedSeq(S) ==
    CHOOSE q \in [1..Cardinality(S) -> S] :
        \A i, j \in 1..Cardinality(S) : i < j => StrInfo(q[i]).rank < StrInfo(q[j]).rank

\* only a file whose content is a dict is searched
_extract_entities_from_context(context) ==
    SortedSeq(UNION {Range(_find_entities_in_dict(context.files[i].content)) :
                        i \in {j \in 1..Len(context.files) : context.files[j].content.k = "dict"}})

EntityDomain(e) == StrInfo(e).parts[1]

\* the lines of one domain group: a heading, at most 10 entities, a line
\* for the rest, an empty line
GroupLens(domain, ents) ==
    LET mine == SelectSeq(ents, LAMBDA e : EntityDomain(e) = domain)
        shown == SubSeq(mine, 1, IF Len(mine) > 10 THEN 10 ELSE Len(mine))
    IN <<4 + StrLen(domain) + 2 + DecLen(Len(mine)) + 10>>
       \o [i \in 1..Len(shown) |-> 2 + StrLen(shown[i])]
       \o (IF Len(mine) > 10 THEN <<10 + DecLen(Len(mine) - 10) + 5>> ELSE <<>>)
       \o <<0>>

RECURSIVE GroupsLens(_, _)
GroupsLens(domains, ents) ==
    IF domains = <<>> THEN <<>>
    ELSE GroupLens(Head(domains), ents) \o GroupsLens(Tail(domains), ents)

_build_automation_prompt(context) ==
    LET ents == _extract_entities_from_context(context)
        domains == SetToSeq({EntityDomain(e) : e \in Range(ents)})
        groups == GroupsLens(domains, ents)
        nparts == 5 + Len(groups) + 10
        chars == AutoHeadChars + DecLen(Len(ents)) + SumSeq(groups) + AutoTailChars
    IN [raised |-> FALSE, kind |-> "automation", paths |-> <<>>,
        entities |-> ents, len |-> chars + (nparts - 1)]

(***************************************************************************)
(* Token budgeting of the provider (BaseLLMProvider).                      *)
(***************************************************************************)
\* len(text) // 4
estimate_tokens(text) == text.len \div 4

can_handle_context(text, context_tokens) == estimate_tokens(text) <= context_tokens

(***************************************************************************)
(* The chunker.  The chunk's context has a summary without "total_size".   *)
(***************************************************************************)
ChunkContext(chunk_files, analysis_type) ==
    [files |-> chunk_files,
     summary |-> [total_files |-> Len(chunk_files), file_types |-> FileTypes(chunk_files)],
     analysis_type |-> analysis_type]

\* the for loop of _chunk_analysis_context and the final chunk; a raise in
\* rendering a chunk leaves the function
RECURSIVE ChunkLoop(_, _, _, _, _, _)
ChunkLoop(context, i, current, current_size, chunks, max_chunk_size) ==
    LET f == context.files[i]
        file_size == f.yaml_len
        \* chunks.append(self._build_optimization_prompt(chunk_context))
        Appended(r) ==
            IF r.raised THEN [raised |-> TRUE, chunks |-> <<>>]
            ELSE IF i > Len(context.files)
            THEN [raised |-> FALSE, chunks |-> Append(chunks, r)]
            ELSE ChunkLoop(context, i + 1, <<f>>, file_size, Append(chunks, r),
                           max_chunk_size)
        closes == IF i > Len(context.files) THEN current # <<>>
                  ELSE current_size + file_size > max_chunk_size /\ current # <<>>
    IN IF closes
       THEN Appended(_build_optimization_prompt(
                        ChunkContext(current, context.analysis_type)))
       ELSE IF i > Len(context.files) THEN [raised |-> FALSE, chunks |-> chunks]
       ELSE ChunkLoop(context, i + 1, Append(current, f), current_size + file_size,
                      chunks, max_chunk_size)

_chunk_analysis_context(context, context_tokens) ==
    ChunkLoop(context, 1, <<>>, 0, <<>>, context_tokens * 3)

(***************************************************************************)
(* analyze_configuration, one call of it: the only suspension points are   *)
(* the awaits of llm_provider.generate.                                    *)
(***************************************************************************)
\* the chunks of _generate_optimization_suggestions: the full prompt when
\* it fits, else what the chunker returns (or its exception)
OptimizationChunks(context, context_tokens) ==
    LET Chunked(c) ==
            [raised |-> c.raised,
             chunker |-> IF c.raised THEN "raised" ELSE "returned",
             chunks |-> c.chunks]
        Chunks(prompt) ==
            IF can_handle_context(prompt, context_tokens)
            THEN [raised |-> FALSE, chunker |-> "notcalled", chunks |-> <<prompt>>]
            ELSE Chunked(_chunk_analysis_context(context, context_tokens))
    IN Chunks(_build_optimization_prompt(context))

\* the messages of one generate call
Messages(kind, chunk) == [system |-> kind, user |-> chunk]

\* model outputs drawn for a generate call inside an analysis
EngResponses ==
    {ArrayText(<<<<Obj([Blank EXCEPT !.title = "Fix X"])>>>>),
     ArrayText(<<<<Obj([Blank EXCEPT !.title = "C", !.impact = "HIGH",
                                     !.file_path = "configuration.yaml",
                                     !.before = "a: 1", !.after = "a: 2"])>>,
                 <<Obj(Blank)>>>>),
     <<WORD, WORD>>}

\* sequences of distinct paths, at most MaxFiles long
FileSeqs ==
    UNION {{q \in [1..n -> DOMAIN ConfigFiles] : \A i, j \in 1..n : i # j => q[i] # q[j]} :
              n \in 0..MaxFiles}

\* context windows of the provider profile
ContextSizes == {100, 1000, 4000}

EInit ==
    /\ \E fp \in FileSeqs, ct \in ContextSizes :
        eng = [pc |-> "start", file_paths |-> fp, context_tokens |-> ct,
               analysis_type |-> "none", chunker |-> "notcalled", chunks |-> <<>>,
               idx |-> 0, calls |-> <<>>, out |-> <<>>, got |-> <<>>,
               raised |-> FALSE]
    /\ PrsIdle
    /\ ScanIdle
    /\ CallIdle

\* analyze_configuration up to its first generate call: it returns []
\* without a call (early), or raises, or has the prompts to send
AnalysisPlan(file_paths, kind, context_tokens) ==
    LET Plan(context) ==
            IF kind = "optimization"
            THEN [early |-> FALSE] @@ OptimizationChunks(context, context_tokens)
            ELSE [early |-> FALSE, raised |-> FALSE, chunker |-> "notcalled",
                  chunks |-> <<_build_automation_prompt(context)>>]
        Read(yaml_data) ==
            IF yaml_data = <<>> \/ kind \notin {"optimization", "automation"}
            THEN [early |-> TRUE, raised |-> FALSE, chunker |-> "notcalled",
                  chunks |-> <<>>]
            ELSE Plan(_prepare_analysis_context(yaml_data, kind))
    IN Read(read_multiple_files(file_paths))

\* analyze_configuration up to its first await (or its return)
AnalyzeStart(kind) ==
    /\ eng.pc = "start"
    /\ \E plan \in {AnalysisPlan(eng.file_paths, kind, eng.context_tokens)} :
          IF plan.early
          THEN eng' = [eng EXCEPT !.pc = "done", !.analysis_type = kind]
          ELSE IF plan.raised \/ plan.chunks = <<>>
          THEN eng' = [eng EXCEPT !.pc = "done", !.analysis_type = kind,
                                  !.chunker = plan.chunker, !.raised = plan.raised]
          ELSE eng' = [eng EXCEPT !.pc = "generating", !.analysis_type = kind,
                                  !.chunker = plan.chunker, !.chunks = plan.chunks,
                                  !.idx = 1,
                                  !.calls = <<Messages(kind, plan.chunks[1])>>]
    /\ UNCHANGED <<parseVars, scanVars, callVars>>

AnalyzeOptimization == AnalyzeStart("optimization")

AnalyzeAutomation == AnalyzeStart("automation")

AnalyzeUnknownType == AnalyzeStart("security")

\* after a generate call of the optimization loop: the next chunk's call is
\* begun, or the loop ends; got keeps what each call added to all_suggestions
NextChunk(e, out) ==
    IF e.idx < Len(e.chunks)
    THEN [e EXCEPT !.out = out, !.idx = e.idx + 1,
                   !.got = Append(e.got, SubSeq(out, Len(e.out) + 1, Len(out))),
                   !.calls = Append(e.calls, Messages(e.analysis_type, e.chunks[e.idx + 1]))]
    ELSE [e EXCEPT !.out = out, !.pc = "done",
                   !.got = Append(e.got, SubSeq(out, Len(e.out) + 1, Len(out)))]

\* generate returns a response
GenerateReturns ==
    /\ eng.pc = "generating"
    /\ \E resp \in EngResponses :
        eng' = IF eng.analysis_type = "optimization"
               THEN NextChunk(eng, eng.out \o _parse_optimization_response(resp, 1))
               ELSE NextChunk(eng, _parse_automation_response(resp, 1))
    /\ UNCHANGED <<parseVars, scanVars, callVars>>

\* generate raises: the optimization loop continues with the next chunk,
\* _generate_automation_suggestions returns []
GenerateRaises ==
    /\ eng.pc = "generating"
    /\ eng' = IF eng.analysis_type = "optimization"
              THEN NextChunk(eng, eng.out)
              ELSE NextChunk(eng, <<>>)
    /\ UNCHANGED <<parseVars, scanVars, callVars>>

ENext ==
    \/ AnalyzeOptimization
    \/ AnalyzeAutomation
    \/ AnalyzeUnknownType
    \/ GenerateReturns
    \/ GenerateRaises

SpecEngine == EInit /\ [][ENext]_vars

(***************************************************************************)
(* Deployment: the Settings object, the provider profiles, the factory.    *)
(***************************************************************************)
\* class Settings as config.py declares it: neither litellm_proxy_url nor
\* litellm_proxy_api_key is a field, so create_provider's read of them
\* raises AttributeError
DeclaredSettings ==
    [openai_api_key |-> "None", anthropic_api_key |-> "None", groq_api_key |-> "None"]

\* a settings object on which the two attributes create_provider reads
\* exist and are unset
SettingsWithProxy ==
    [openai_api_key |-> "None", anthropic_api_key |-> "None", groq_api_key |-> "None",
     litellm_proxy_url |-> "None", litellm_proxy_api_key |-> "None"]

SettingsObjects == {DeclaredSettings, SettingsWithProxy}

\* the rows of llm_profiles; active is is_active of profile 1
ProfileRows(active) ==
    <<[id |-> 1, provider |-> "openai", endpoint |-> "https://a.example/v1",
       api_key |-> "enc(sk-A)", model_name |-> "gpt-4o", context_tokens |-> 4000,
       is_active |-> active],
      [id |-> 2, provider |-> "openai", endpoint |-> "https://b.example/v1",
       api_key |-> "sk-B", model_name |-> "gpt-4o", context_tokens |-> 100,
       is_active |-> 0],
      [id |-> 3, provider |-> "google", endpoint |-> "https://g.example",
       api_key |-> "g-key", model_name |-> "gemini-pro", context_tokens |-> 4000,
       is_active |-> 0],
      [id |-> 4, provider |-> "openai", endpoint |-> "https://a.example/v1",
       api_key |-> "None", model_name |-> "gpt-4o", context_tokens |-> 4000,
       is_active |-> 0]>>

ProfileTables == {ProfileRows(0), ProfileRows(1)}

\* Settings.get_llm_config: the environment defaults of a vendor
get_llm_config(provider) ==
    CASE provider = "openai" ->
            [raised |-> FALSE, api_key |-> settings.openai_api_key,
             endpoint |-> "https://api.openai.com/v1", model_name |-> "gpt-3.5-turbo",
             context_tokens |-> 4000]
      [] provider = "anthropic" ->
            [raised |-> FALSE, api_key |-> settings.anthropic_api_key,
             endpoint |-> "https://api.anthropic.com",
             model_name |-> "claude-3-haiku-20240307", context_tokens |-> 200000]
      [] provider = "groq" ->
            [raised |-> FALSE, api_key |-> settings.groq_api_key,
             endpoint |-> "https://api.groq.com/openai/v1",
             model_name |-> "llama-3-70b-8192", context_tokens |-> 8000]
      [] provider = "ollama" ->
            [raised |-> FALSE, api_key |-> "None", endpoint |-> "http://localhost:11434",
             model_name |-> "llama3", context_tokens |-> 8000]
      [] OTHER ->
            [raised |-> TRUE, api_key |-> "None", endpoint |-> "None",
             model_name |-> "None", context_tokens |-> 0]

\* get_supported_providers: the vendors and whether each requires a key
get_supported_providers ==
    [openai |-> TRUE, anthropic |-> TRUE, google |-> TRUE, groq |-> TRUE, ollama |-> FALSE]

\* app.utils.crypto: a stored key that decrypts, and its plaintext
is_api_key_encrypted(api_key) == api_key = "enc(sk-A)"

decrypt_api_key(encrypted_key) ==
    IF encrypted_key = "enc(sk-A)" THEN "sk-A" ELSE encrypted_key

\* a or b
Or(a, b) == IF Truthy(a) THEN a ELSE b

\* no adapter
NoAdapter ==
    [provider_name |-> "None", model_name |-> "None", endpoint |-> "None",
     api_key |-> "None", context_tokens |-> 0, proxy_url |-> "None",
     proxy_api_key |-> "None"]

\* BaseLLMProvider.__init__ and the proxy fields of LiteLLMProvider.__init__
LiteLLMProvider(config) ==
    [provider_name |-> config.provider, model_name |-> config.model_name,
     endpoint |-> config.endpoint, api_key |-> config.api_key,
     context_tokens |-> config.context_tokens, proxy_url |-> config.proxy_url,
     proxy_api_key |-> config.proxy_api_key]

\* create_provider: an adapter, None, or an exception
create_provider(profile) ==
    LET none == [kind |-> "None", adapter |-> NoAdapter]
        raises == [kind |-> "raises", adapter |-> NoAdapter]
        supported == profile.provider \in DOMAIN get_supported_providers
        env_config == get_llm_config(profile.provider)
        required == supported /\ get_supported_providers[profile.provider]
        key == Or(profile.api_key, env_config.api_key)
        api_key == IF required /\ is_api_key_encrypted(key)
                   THEN decrypt_api_key(key) ELSE key
    IN IF ~Truthy(profile.provider) \/ ~Truthy(profile.endpoint) THEN none
       ELSE IF env_config.raised THEN raises
       ELSE IF required /\ ~Truthy(key) THEN none
       ELSE IF "litellm_proxy_url" \notin DOMAIN settings THEN raises
       ELSE IF ~supported THEN none
       ELSE [kind |-> "adapter",
             adapter |-> LiteLLMProvider(
                 [provider |-> profile.provider,
                  model_name |-> Or(profile.model_name, env_config.model_name),
                  endpoint |-> Or(profile.endpoint, env_config.endpoint),
                  api_key |-> api_key,
                  context_tokens |-> IF profile.context_tokens # 0
                                     THEN profile.context_tokens
                                     ELSE env_config.context_tokens,
                  proxy_url |-> settings.litellm_proxy_url,
                  proxy_api_key |-> settings.litellm_proxy_api_key])]

(***************************************************************************)
(* The LiteLLM adapter: authentication through os.environ.                 *)
(***************************************************************************)
EnvKeys ==
    {"OPENAI_API_KEY", "OPENAI_API_BASE", "ANTHROPIC_API_KEY", "ANTHROPIC_API_BASE",
     "GOOGLE_API_KEY", "GROQ_API_KEY", "OLLAMA_API_BASE"}

\* the variable a vendor's key is read from
KeyVar(provider) ==
    CASE provider = "openai" -> "OPENAI_API_KEY"
      [] provider = "anthropic" -> "ANTHROPIC_API_KEY"
      [] provider = "google" -> "GOOGLE_API_KEY"
      [] provider = "groq" -> "GROQ_API_KEY"
      [] OTHER -> "None"

\* the variable a vendor's endpoint is read from
BaseVar(provider) ==
    CASE provider = "openai" -> "OPENAI_API_BASE"
      [] provider = "anthropic" -> "ANTHROPIC_API_BASE"
      [] provider = "ollama" -> "OLLAMA_API_BASE"
      [] OTHER -> "None"

\* os.environ[name] = value
SetEnv(env, name, value) == IF name \in EnvKeys THEN [env EXCEPT ![name] = value] ELSE env

_setup_environment_auth(self, env) ==
    LET e1 == IF Truthy(self.api_key)
              THEN SetEnv(env, KeyVar(self.provider_name), self.api_key) ELSE env
    IN IF Truthy(self.endpoint)
       THEN SetEnv(e1, BaseVar(self.provider_name), self.endpoint) ELSE e1

_setup_proxy_auth(self, env) ==
    SetEnv(SetEnv(env, "OPENAI_API_KEY",
                  IF Truthy(self.proxy_api_key) THEN self.proxy_api_key ELSE "sk-1234"),
           "OPENAI_API_BASE", self.proxy_url)

\* os.environ after LiteLLMProvider.__init__
SetupAuth(self, env) ==
    IF Truthy(self.proxy_url) THEN _setup_proxy_auth(self, env)
    ELSE _setup_environment_auth(self, env)

\* generate: the completion request as it leaves the process.  No api_key
\* is passed to acompletion and, for openai and anthropic, no api_base:
\* LiteLLM takes them from os.environ when the call is made.
generate(self, env, purpose) ==
    LET api_base == IF ~Truthy(self.proxy_url) /\ Truthy(self.endpoint)
                       /\ self.provider_name \notin {"openai", "anthropic"}
                    THEN self.endpoint
                    ELSE IF Truthy(self.proxy_url) THEN self.proxy_url
                    ELSE "None"
    IN [purpose |-> purpose,
        api_key |-> IF KeyVar(self.provider_name) \in EnvKeys
                    THEN env[KeyVar(self.provider_name)] ELSE "None",
        api_base |-> IF api_base # "None" THEN api_base
                     ELSE IF BaseVar(self.provider_name) \in EnvKeys
                     THEN env[BaseVar(self.provider_name)] ELSE "None",
        result |-> "pending"]

\* a connection test that lets an empty response pass
ConnectionOkOnEmpty(outcome) == outcome \in {"ok", "empty"}

\* test_connection's verdict on the outcome of its generate call: a
\* response with content, an empty response, an exception
ConnectionOk(outcome) == outcome = "ok"

(***************************************************************************)
(* create_provider, one call of it on a profile (specification             *)
(* SpecFactory).                                                           *)
(***************************************************************************)
\* the settings objects of a call: the vendors' keys of the environment all
\* unset or all set, on the class as declared and on an object that has the
\* proxy attributes (unset, or naming a proxy)
EnvSettings(env_key, proxy_url) ==
    [openai_api_key |-> env_key, anthropic_api_key |-> env_key,
     groq_api_key |-> env_key, litellm_proxy_url |-> proxy_url,
     litellm_proxy_api_key |-> "None"]

FactorySettings ==
    {[openai_api_key |-> k, anthropic_api_key |-> k, groq_api_key |-> k] :
        k \in {"None", "sk-env"}}
    \cup {EnvSettings(k, u) : k \in {"None", "sk-env"}, u \in {"None", "http://proxy:4000"}}

\* the profiles of a call: a vendor of the registry, one outside it or
\* none; a stored key that is absent, plaintext, ciphertext of this
\* installation or ciphertext that does not decrypt
FactoryProfiles ==
    [id : {1},
     provider : {"openai", "anthropic", "google", "groq", "ollama", "mistral", "None"},
     endpoint : {"https://x.example/v1", "None"},
     model_name : {"model-1", "None"},
     api_key : {"None", "sk-plain", "enc(sk-A)", "enc'(sk-C)"},
     context_tokens : {4000},
     is_active : {1}]

FInit ==
    /\ fac \in [pc : {"start"}, profile : FactoryProfiles,
                made : {[kind |-> "notcalled", adapter |-> NoAdapter]}]
    /\ settings \in FactorySettings
    /\ environ = [name \in EnvKeys |-> "UNSET"]
    /\ TablesIdle
    /\ PrsIdle
    /\ EngIdle
    /\ FsIdle
    /\ FltIdle
    /\ MoreIdle

\* LLMProviderFactory.create_provider(profile); building the adapter writes
\* its authentication to os.environ
CreateProvider ==
    /\ fac.pc = "start"
    /\ \E made \in {create_provider(fac.profile)} :
        /\ fac' = [fac EXCEPT !.pc = "done", !.made = made]
        /\ environ' = IF made.kind = "adapter" THEN SetupAuth(made.adapter, environ)
                      ELSE environ
    /\ UNCHANGED <<settings, llm_profiles, scans, suggestions, diffs, tasks, calls,
                   cancelled, written, reply, parseVars, engVars, fs, flt, moreVars>>

FNext == CreateProvider

SpecFactory == FInit /\ [][FNext]_vars

(***************************************************************************)
(* The scan service.  execute_scan runs as an asyncio task: it is only     *)
(* suspended at the awaits of test_connection and of generate, so each     *)
(* action below is the code between two such awaits.                       *)
(***************************************************************************)
\* POST /scans bodies: llm_profile_id (0 is None, 9 is no row), files,
\* analysis_types
ScanRequests ==
    [llm_profile_id : {0, 1, 2, 3, 4, 9},
     files : {<<>>, <<"configuration.yaml">>},
     analysis_types : {<<"optimization">>, <<"optimization", "automation">>}]

\* what filter_files finds under the config directory
DiscoveredFiles == {<<"configuration.yaml", "automations.yaml">>, <<>>}

\* how the filtering ends: filter_files returns, or the settings query or
\* filter_files raises
FilterOutcomes == {"returned", "raised"}

\* _get_files_to_scan as execute_scan sees it: an exception of filter_files
\* is caught inside and gives [], any other exception is caught by
\* execute_scan, which sets file_paths = []
_get_files_to_scan(found, filtering) == IF filtering = "raised" THEN <<>> ELSE found

\* the arrays a model answers an analysis call of a scan with
ScanArrays ==
    {<<<<Obj([Blank EXCEPT !.title = "C", !.impact = "HIGH",
                           !.file_path = "configuration.yaml",
                           !.before = "a: 1", !.after = "a: 2"])>>,
       <<Obj([Blank EXCEPT !.title = "Fix X"])>>>>}

\* model outputs of an analysis call inside a scan: an array, or prose
ScanResponses == {ArrayText(a) : a \in ScanArrays} \cup {<<WORD, WORD>>}

\* the coroutine created by start_background_scan; file_paths is <<>> for
\* None and <<list>> for a list
NewTask(file_paths, analysis_types) ==
    [pc |-> "created", file_paths |-> file_paths, analysis_types |-> analysis_types,
     provider |-> NoAdapter, k |-> 0, chunks |-> <<>>, c |-> 0,
     all_suggestions |-> <<>>, invoked |-> <<>>, raised |-> <<>>, got |-> <<>>,
     discovery |-> "notrun", resolved |-> <<>>, result |-> "None"]

\* execute_scan has returned: what is kept is what it was asked, which
\* analyses it invoked, which of them raised, what each generate call gave,
\* the file list it resolved (<<>> when it did not get there, else <<list>>),
\* what it collected and its result
Returned(t, result) ==
    [NewTask(<<>>, t.analysis_types) EXCEPT
        !.pc = "returned", !.invoked = t.invoked, !.raised = t.raised,
        !.discovery = t.discovery, !.resolved = t.resolved,
        !.all_suggestions = t.all_suggestions,
        !.got = t.got, !.result = result]

\* the profile of a scan: the row of its llm_profile_id, else the first
\* active row, else none
ResolveProfile(scan) ==
    LET own == SelectSeq(llm_profiles, LAMBDA p : p.id = scan.llm_profile_id)
        active == SelectSeq(llm_profiles, LAMBDA p : p.is_active = 1)
    IN IF scan.llm_profile_id # 0 /\ own # <<>> THEN <<own[1]>>
       ELSE IF active # <<>> THEN <<active[1]>>
       ELSE <<>>

RECURSIVE RunKinds(_, _)

\* an analysis loop that a raising analysis ends: the kinds after it are
\* not invoked
RunKindsUntilRaise(t, k) ==
    IF k > Len(t.analysis_types) THEN [t EXCEPT !.pc = "store"]
    ELSE LET kind == t.analysis_types[k]
             u == [t EXCEPT !.invoked = Append(@, kind)]
             Run(plan) ==
                IF plan.raised
                THEN [u EXCEPT !.raised = Append(@, kind), !.pc = "store"]
                ELSE IF plan.early \/ plan.chunks = <<>>
                THEN RunKinds(u, k + 1)
                ELSE [u EXCEPT !.pc = "generate", !.k = k, !.chunks = plan.chunks,
                               !.c = 1]
         IN Run(AnalysisPlan(t.file_paths[1], kind, t.provider.context_tokens))

\* the loop over analysis_types from index k on, up to the next generate
\* call: an analysis that returns without a call or raises is passed over
RunKinds(t, k) ==
    IF k > Len(t.analysis_types) THEN [t EXCEPT !.pc = "store"]
    ELSE LET kind == t.analysis_types[k]
             u == [t EXCEPT !.invoked = Append(@, kind)]
             Run(plan) ==
                IF plan.raised
                THEN RunKinds([u EXCEPT !.raised = Append(@, kind)], k + 1)
                ELSE IF plan.early \/ plan.chunks = <<>>
                THEN RunKinds(u, k + 1)
                ELSE [u EXCEPT !.pc = "generate", !.k = k, !.chunks = plan.chunks,
                               !.c = 1]
         IN Run(AnalysisPlan(t.file_paths[1], kind, t.provider.context_tokens))

\* after a generate call of an analysis: the next chunk, else the next kind
NextCall(t) ==
    IF t.c < Len(t.chunks) THEN [t EXCEPT !.c = t.c + 1] ELSE RunKinds(t, t.k + 1)

\* Suggestion(**suggestion_data): metadata_json holds the metadata dict
SuggestionRow(suggestion_data) ==
    [scan_id |-> suggestion_data.scan_id, type |-> suggestion_data.type,
     title |-> suggestion_data.title, impact |-> suggestion_data.impact,
     status |-> suggestion_data.status,
     metadata_json |-> [py |-> "dict", d |-> suggestion_data.metadata]]

\* rows stored last to first
StoreSuggestionsReversed(all_suggestions) ==
    [i \in 1..Len(all_suggestions) |->
        SuggestionRow(all_suggestions[Len(all_suggestions) + 1 - i])]

\* for suggestion_data in all_suggestions: db.add(Suggestion(...)); the rows
\* get their ids in the order they were added
StoreSuggestions(all_suggestions) ==
    [i \in 1..Len(all_suggestions) |-> SuggestionRow(all_suggestions[i])]

\* what a generate call of an analysis gave: got is appended to the task
Answered(t, resp, chunk_suggestions) ==
    [t EXCEPT !.all_suggestions = @ \o chunk_suggestions,
              !.got = Append(@, [kind |-> t.analysis_types[t.k], chunk |-> t.c,
                                 resp |-> resp, suggestions |-> chunk_suggestions])]

\* the outcome of the last call of a sequence of requests
SetResult(cs, outcome) == [cs EXCEPT ![Len(cs)].result = outcome]

\* the suggestions are committed and the scan row is left as it was
LeaveScanStatus(scan) == scan

\* scan.status = ScanStatus.COMPLETED; scan.ended_at = datetime.utcnow(),
\* committed together with the suggestions added to the session
CompleteScan(scan) == [scan EXCEPT !.status = "completed", !.ended_at = "set"]

\* execute_scan from the end of an await with task state t: either the
\* next generate call is begun, or the suggestions are stored and the scan
\* is completed
Continue(s, t, scans1, calls1) ==
    IF t.pc = "generate"
    THEN /\ tasks' = [tasks EXCEPT ![s] = t]
         /\ calls' = [calls1 EXCEPT ![s] =
                        Append(@, generate(t.provider, environ, t.analysis_types[t.k]))]
         /\ scans' = scans1
         /\ UNCHANGED suggestions
    ELSE /\ tasks' = [tasks EXCEPT ![s] = Returned(t, "True")]
         /\ calls' = calls1
         /\ suggestions' = suggestions \o StoreSuggestions(t.all_suggestions)
         /\ scans' = [scans1 EXCEPT ![s] = CompleteScan(@)]

\* the scan is marked failed and execute_scan returns False
Fail(s, calls1) ==
    /\ scans' = [scans EXCEPT ![s].status = "failed", ![s].ended_at = "set"]
    /\ tasks' = [tasks EXCEPT ![s] = Returned(tasks[s], "False")]
    /\ calls' = calls1
    /\ UNCHANGED suggestions

Init ==
    /\ PrsIdle
    /\ EngIdle
    /\ CallIdle
    /\ settings \in SettingsObjects
    /\ llm_profiles \in ProfileTables
    /\ scans = <<>>
    /\ suggestions = <<>>
    /\ diffs = <<>>
    /\ tasks = <<>>
    /\ environ = [name \in EnvKeys |-> "UNSET"]
    /\ calls = <<>>
    /\ cancelled = {}
    /\ written = <<>>
    /\ reply = [op |-> "none", id |-> 0, code |-> 0, was |-> "none"]

\* POST /scans: create_scan adds the row, start_background_scan the task
CreateScanUpTo(limit) ==
    /\ Len(scans) < limit
    /\ \E req \in ScanRequests :
        /\ scans' = Append(scans, [status |-> "pending",
                                   llm_profile_id |-> req.llm_profile_id,
                                   file_count |-> 0, ended_at |-> "None"])
        /\ tasks' = Append(tasks, NewTask(IF req.files # <<>> THEN <<req.files>> ELSE <<>>,
                                          req.analysis_types))
        /\ calls' = Append(calls, <<>>)
    /\ UNCHANGED <<settings, llm_profiles, suggestions, diffs, environ, cancelled,
                   written, reply, parseVars, engVars, callVars>>

CreateScan == CreateScanUpTo(MaxScans)

\* execute_scan up to the await of test_connection
ExecuteScanStart ==
    \E s \in 1..Len(tasks) :
        /\ tasks[s].pc = "created"
        /\ LET profile == ResolveProfile(scans[s])
               made == IF profile = <<>> THEN [kind |-> "None", adapter |-> NoAdapter]
                       ELSE create_provider(profile[1])
               env == SetupAuth(made.adapter, environ)
           IN IF made.kind # "adapter"
              THEN Fail(s, calls) /\ UNCHANGED environ
              ELSE /\ scans' = [scans EXCEPT ![s].status = "running"]
                   /\ environ' = env
                   /\ tasks' = [tasks EXCEPT ![s].pc = "test_connection",
                                             ![s].provider = made.adapter]
                   /\ calls' = [calls EXCEPT ![s] =
                                   Append(@, generate(made.adapter, env, "test"))]
                   /\ UNCHANGED suggestions
        /\ UNCHANGED <<settings, llm_profiles, diffs, cancelled, written, reply,
                       parseVars, engVars, callVars>>

\* a scan without files counted as a failure
FailedWithNoFiles(scan) ==
    [scan EXCEPT !.status = "failed", !.ended_at = "set", !.file_count = 0]

\* if not file_paths: the scan is completed with file_count 0
CompletedWithNoFiles(scan) ==
    [scan EXCEPT !.status = "completed", !.ended_at = "set", !.file_count = 0]

\* test_connection ends; on success execute_scan goes on to the files and
\* to the first analysis call
TestConnectionReturns ==
    \E s \in 1..Len(tasks), outcome \in {"ok", "empty", "raised"}, found \in DiscoveredFiles,
       filtering \in FilterOutcomes :
        /\ tasks[s].pc = "test_connection"
        /\ LET discovers == ConnectionOk(outcome) /\ tasks[s].file_paths = <<>>
               file_paths == IF tasks[s].file_paths = <<>>
                             THEN _get_files_to_scan(found, filtering)
                             ELSE tasks[s].file_paths[1]
               t == [tasks[s] EXCEPT !.discovery = IF discovers THEN filtering ELSE @,
                                     !.resolved = <<file_paths>>]
               calls1 == [calls EXCEPT ![s] = SetResult(@, outcome)]
           IN IF ~ConnectionOk(outcome) THEN Fail(s, calls1)
              ELSE IF file_paths = <<>>
              THEN /\ scans' = [scans EXCEPT ![s] = CompletedWithNoFiles(@)]
                   /\ tasks' = [tasks EXCEPT ![s] = Returned(t, "True")]
                   /\ calls' = calls1
                   /\ UNCHANGED suggestions
              ELSE \E u \in {RunKinds([t EXCEPT !.file_paths = <<file_paths>>], 1)} :
                     Continue(s, u, [scans EXCEPT ![s].file_count = Len(file_paths)],
                              calls1)
        /\ UNCHANGED <<settings, llm_profiles, diffs, environ, cancelled, written, reply,
                       parseVars, engVars, callVars>>

\* a generate call of an analysis returns the model's output
AnalysisCallReturns ==
    \E s \in 1..Len(tasks), resp \in ScanResponses :
        /\ tasks[s].pc = "generate"
        /\ LET t == tasks[s]
               got == IF t.analysis_types[t.k] = "optimization"
                      THEN _parse_optimization_response(resp, s)
                      ELSE _parse_automation_response(resp, s)
           IN \E u \in {NextCall(Answered(t, resp, got))} :
                Continue(s, u, scans, [calls EXCEPT ![s] = SetResult(@, "ok")])
        /\ UNCHANGED <<settings, llm_profiles, diffs, environ, cancelled, written, reply,
                       parseVars, engVars, callVars>>

\* a generate call of an analysis raises: the chunk gives no suggestion
AnalysisCallRaises ==
    \E s \in 1..Len(tasks) :
        /\ tasks[s].pc = "generate"
        /\ \E u \in {NextCall(Answered(tasks[s], <<>>, <<>>))} :
             Continue(s, u, scans, [calls EXCEPT ![s] = SetResult(@, "raised")])
        /\ UNCHANGED <<settings, llm_profiles, diffs, environ, cancelled, written, reply,
                       parseVars, engVars, callVars>>

\* cancel_scan also of a scan that has not begun to run
cancel_scan_unless_terminal(rows, scan_id) ==
    IF scan_id \in 1..Len(rows) /\ rows[scan_id].status \in {"pending", "running"}
    THEN [scans |-> [rows EXCEPT ![scan_id].status = "failed",
                                 ![scan_id].ended_at = "set"],
          result |-> TRUE]
    ELSE [scans |-> rows, result |-> FALSE]

\* ScanService.cancel_scan(db, scan_id) on the rows of table scans: the
\* table after the call and the value returned
cancel_scan(rows, scan_id) ==
    IF scan_id \notin 1..Len(rows) THEN [scans |-> rows, result |-> FALSE]
    ELSE IF rows[scan_id].status = "running"
    THEN [scans |-> [rows EXCEPT ![scan_id].status = "failed",
                                 ![scan_id].ended_at = "set"],
          result |-> TRUE]
    ELSE [scans |-> rows, result |-> FALSE]

\* POST /scans/{scan_id}/cancel
CancelScan ==
    \E scan_id \in 1..MaxScans :
        /\ \E r \in {cancel_scan(scans, scan_id)} :
             /\ scans' = r.scans
             /\ cancelled' = IF r.result THEN cancelled \cup {scan_id} ELSE cancelled
        /\ UNCHANGED <<settings, llm_profiles, suggestions, diffs, tasks, environ, calls,
                       written, reply, parseVars, engVars, callVars>>

Next ==
    \/ CreateScan
    \/ ExecuteScanStart
    \/ TestConnectionReturns
    \/ AnalysisCallReturns
    \/ AnalysisCallRaises
    \/ CancelScan

Spec == Init /\ [][Next]_vars

(***************************************************************************)
(* execute_scan of one scan when persistence operations may raise.  Every  *)
(* query and commit of execute_scan is inside its try; the handler         *)
(* (except Exception) queries the scan again, marks it failed and commits, *)
(* inside a try of its own whose except only logs.                         *)
(***************************************************************************)
\* how the handler ends: it commits status failed, or its own query or
\* commit raises and the error is only logged
HandlerOutcomes == {"marked_failed", "raised"}

\* a query or commit of execute_scan raises in the code that follows the
\* end of an await (or the start of the coroutine); running_committed says
\* whether the commit of status running had been done before it
PersistenceRaises ==
    \E s \in 1..Len(tasks), handler \in HandlerOutcomes, running_committed \in BOOLEAN :
        /\ tasks[s].pc \in {"created", "test_connection", "generate"}
        /\ tasks[s].pc # "created" => running_committed
        /\ LET calls1 == IF tasks[s].pc = "created" THEN calls
                         ELSE [calls EXCEPT ![s] = SetResult(@, "ok")]
           IN IF handler = "marked_failed"
              THEN Fail(s, calls1)
              ELSE /\ tasks' = [tasks EXCEPT ![s] = Returned(tasks[s], "False")]
                   /\ calls' = calls1
                   /\ scans' = IF tasks[s].pc = "created" /\ running_committed
                               THEN [scans EXCEPT ![s].status = "running"]
                               ELSE scans
                   /\ UNCHANGED suggestions
        /\ UNCHANGED <<settings, llm_profiles, diffs, environ, cancelled, written, reply,
                       parseVars, engVars, callVars>>

\* POST /scans, once
CreateOneScan == CreateScanUpTo(1)

\* a step of the execute_scan coroutine
ExecuteScanStep ==
    \/ ExecuteScanStart
    \/ TestConnectionReturns
    \/ AnalysisCallReturns
    \/ AnalysisCallRaises
    \/ PersistenceRaises

LiveNext ==
    \/ CreateOneScan
    \/ ExecuteScanStart
    \/ TestConnectionReturns
    \/ AnalysisCallReturns
    \/ AnalysisCallRaises
    \/ PersistenceRaises
    \/ CancelScan

\* the event loop runs the task created by start_background_scan, and
\* every awaited provider call returns or raises
SpecLive == Init /\ [][LiveNext]_vars /\ WF_vars(ExecuteScanStep)

(***************************************************************************)
(* stream_generate of the adapters (specification SpecStream).  The        *)
(* consumer sees the fragments the generator yields.  A line of the        *)
(* response stream is named by what the adapter's loop body does with it:  *)
(*   "text"          a payload that carries text                           *)
(*   "notext"        a payload without text (no content in the delta, an   *)
(*                   empty response, no candidates, no choices)            *)
(*   "sentinel"      data: [DONE], or a JSON line with done = true and no  *)
(*                   text                                                  *)
(*   "sentinel_text" a JSON line with done = true that carries text        *)
(*   "badjson"       a line on which json.loads raises JSONDecodeError     *)
(*   "noprefix"      a line without the "data: " prefix, or a blank line   *)
(*   "malformed"     a line that decodes but has not the expected shape:   *)
(*                   the loop body raises KeyError, IndexError, TypeError  *)
(*                   or AttributeError                                     *)
(* Each step is the code between two suspension points of the generator:   *)
(* the request, and the wait for the next line.                            *)
(***************************************************************************)
Adapters == {"openai", "groq", "anthropic", "google", "ollama", "litellm"}

\* the lines (for LiteLLM: the chunk objects) a vendor's stream can hold
VendorLines(adapter) ==
    CASE adapter \in {"openai", "groq", "anthropic"} ->
            {"text", "notext", "sentinel", "badjson", "noprefix", "malformed"}
      [] adapter = "ollama" ->
            {"text", "notext", "sentinel", "sentinel_text", "badjson", "noprefix",
             "malformed"}
      [] adapter = "google" -> {"text", "notext", "badjson", "noprefix", "malformed"}
      [] adapter = "litellm" -> {"text", "notext"}

\* a loop that never leaves on the sentinel
BreaksNever(adapter, line) == FALSE

\* the loop is left on this line: break on "[DONE]", break on done = true
Breaks(adapter, line) == line \in {"sentinel", "sentinel_text"}

\* the loop body yields the text of this line
Yields(adapter, line) == line \in {"text", "sentinel_text"}

\* the loop body raises on this line, inside the try of stream_generate
BodyRaises(adapter, line) == line = "malformed"

\* except Exception as e: yield f"Error: {str(e)}", after which the
\* generator ends
OnException(g) ==
    [g EXCEPT !.pc = "closed", !.failed = TRUE,
              !.out = Append(@, [kind |-> "error", line |-> g.i])]

SgInit ==
    /\ \E adapter \in Adapters :
         \E lines \in UNION {[1..n -> VendorLines(adapter)] : n \in 0..MaxLines} :
            sg = [pc |-> "request", adapter |-> adapter, lines |-> lines, i |-> 0,
                  out |-> <<>>, failed |-> FALSE]
    /\ PrsIdle
    /\ EngIdle
    /\ ScanIdle
    /\ FacIdle /\ FsIdle /\ FltIdle
    /\ CnIdle /\ CkIdle /\ WsIdle

\* the request is refused or cannot be made: status_code != 200, a
\* connection error, an exception of acompletion
RequestFails ==
    /\ sg.pc = "request"
    /\ sg' = OnException(sg)
    /\ UNCHANGED <<parseVars, engVars, scanVars, fac, fs, flt, cn, ck, ws>>

\* the response begins: status 200, the stream object is returned
RequestAccepted ==
    /\ sg.pc = "request"
    /\ sg' = [sg EXCEPT !.pc = "streaming"]
    /\ UNCHANGED <<parseVars, engVars, scanVars, fac, fs, flt, cn, ck, ws>>

\* the next line arrives and the loop body runs on it
StreamLine ==
    /\ sg.pc = "streaming"
    /\ sg.i < Len(sg.lines)
    /\ LET line == sg.lines[sg.i + 1]
           g == [sg EXCEPT !.i = @ + 1]
       IN sg' = IF BodyRaises(sg.adapter, line) THEN OnException(g)
                ELSE [g EXCEPT
                        !.out = IF Yields(sg.adapter, line)
                                THEN Append(@, [kind |-> "text", line |-> g.i])
                                ELSE @,
                        !.pc = IF Breaks(sg.adapter, line) THEN "closed" ELSE @]
    /\ UNCHANGED <<parseVars, engVars, scanVars, fac, fs, flt, cn, ck, ws>>

\* the vendor closes the stream: the async for ends
StreamEnds ==
    /\ sg.pc = "streaming"
    /\ sg.i = Len(sg.lines)
    /\ sg' = [sg EXCEPT !.pc = "closed"]
    /\ UNCHANGED <<parseVars, engVars, scanVars, fac, fs, flt, cn, ck, ws>>

\* the wait for the next line raises: a read timeout, a broken connection
StreamRaises ==
    /\ sg.pc = "streaming"
    /\ sg' = OnException(sg)
    /\ UNCHANGED <<parseVars, engVars, scanVars, fac, fs, flt, cn, ck, ws>>

SgNext ==
    \/ RequestFails
    \/ RequestAccepted
    \/ StreamLine
    \/ StreamEnds
    \/ StreamRaises

SpecStream == SgInit /\ [][SgNext]_vars

(***************************************************************************)
(* BaseLLMProvider.chunk_text (specification SpecChunkText).  A text is a  *)
(* sequence of characters, "a" or the line break "nl"; Python indices are  *)
(* 0-based, so character i of the text is text[i + 1].  One step is one    *)
(* iteration of the while loop.                                            *)
(***************************************************************************)
\* a slice index as Python adjusts it: a negative index counts from the
\* end, and the result is clipped to 0..len
SliceIndex(i, len) ==
    IF i < 0 THEN (IF i + len < 0 THEN 0 ELSE i + len)
    ELSE IF i > len THEN len ELSE i

\* text.rfind('\n', start, end): the highest index in the slice that holds
\* a line break, -1 when there is none
rfind(text, start, end) ==
    LET found == {i \in SliceIndex(start, Len(text))..(SliceIndex(end, Len(text)) - 1) :
                     text[i + 1] = "nl"}
    IN IF found = {} THEN -1 ELSE CHOOSE i \in found : \A j \in found : j <= i

\* text[start:end]
Slice(text, start, end) ==
    SubSeq(text, SliceIndex(start, Len(text)) + 1, SliceIndex(end, Len(text)))

\* the texts of at most MaxText characters
Texts == UNION {[1..n -> {"a", "nl"}] : n \in 0..MaxText}

\* context windows (in tokens) and overlaps (in characters) of a call
ChunkWindows == {1, 2}

ChunkOverlaps == {0, 1, 2, 4}

CkInit ==
    /\ \E text \in Texts, context_tokens \in ChunkWindows, overlap \in ChunkOverlaps :
         ck = [pc |-> "loop", text |-> text, overlap |-> overlap,
               max_chunk_size |-> context_tokens * 4 - overlap,
               start |-> 0, chunks |-> <<>>, n |-> 0]
    /\ PrsIdle
    /\ EngIdle
    /\ ScanIdle
    /\ FacIdle /\ FsIdle /\ FltIdle
    /\ CnIdle /\ SgIdle /\ WsIdle

\* where the chunk that begins at start ends
ChunkEnd(text, start, max_chunk_size) ==
    LET end == start + max_chunk_size
        last_newline == rfind(text, start, end)
    IN IF end < Len(text) /\ last_newline > start THEN last_newline ELSE end

\* one iteration of the while loop
ChunkTextIteration ==
    /\ ck.pc = "loop"
    /\ ck.start < Len(ck.text)
    /\ ck.n < MaxIter
    /\ \E end \in {ChunkEnd(ck.text, ck.start, ck.max_chunk_size)} :
         ck' = [ck EXCEPT !.chunks = Append(@, Slice(ck.text, ck.start, end)),
                          !.start = IF end < Len(ck.text) THEN end - ck.overlap ELSE end,
                          !.n = @ + 1]
    /\ UNCHANGED <<parseVars, engVars, scanVars, fac, fs, flt, cn, sg, ws>>

\* the loop condition is false: return chunks
ChunkTextReturns ==
    /\ ck.pc = "loop"
    /\ ~(ck.start < Len(ck.text))
    /\ ck' = [ck EXCEPT !.pc = "done"]
    /\ UNCHANGED <<parseVars, engVars, scanVars, fac, fs, flt, cn, sg, ws>>

CkNext == ChunkTextIteration \/ ChunkTextReturns

SpecChunkText == CkInit /\ [][CkNext]_vars /\ WF_vars(CkNext)

(***************************************************************************)
(* cancel_scan alone, on every table of scans.                             *)
(***************************************************************************)
ScanStatus == {"pending", "running", "completed", "failed"}

\* a row of table scans in a status; ended_at is set when a scan ends
ScanRowIn(status) ==
    [status |-> status, llm_profile_id |-> 1, file_count |-> 0,
     ended_at |-> IF status \in {"completed", "failed"} THEN "set" ELSE "None"]

\* the tables of at most MaxScans scans
ScanTables ==
    UNION {[1..n -> {ScanRowIn(st) : st \in ScanStatus}] : n \in 0..MaxScans}

CnInit ==
    /\ cn \in [pc : {"ready"}, scans : ScanTables, n : {0},
                last : {[scan_id |-> 0, before |-> <<>>, result |-> FALSE]}]
    /\ PrsIdle
    /\ EngIdle
    /\ ScanIdle
    /\ FacIdle /\ FsIdle /\ FltIdle
    /\ SgIdle /\ CkIdle /\ WsIdle

\* one call cancel_scan(db, scan_id), of a scan id with or without a row
CancelScanCall ==
    /\ cn.pc = "ready"
    /\ cn.n < MaxCancels
    /\ \E scan_id \in 0..(MaxScans + 1) :
         \E r \in {cancel_scan(cn.scans, scan_id)} :
            cn' = [cn EXCEPT !.scans = r.scans, !.n = @ + 1,
                             !.last = [scan_id |-> scan_id, before |-> cn.scans,
                                       result |-> r.result]]
    /\ UNCHANGED <<parseVars, engVars, scanVars, fac, fs, flt, sg, ck, ws>>

CnNext == CancelScanCall

SpecCancel == CnInit /\ [][CnNext]_vars

(***************************************************************************)
(* The suggestion workflow: PATCH /suggestions/{id} and                    *)
(* POST /suggestions/{id}/apply.                                           *)
(***************************************************************************)
SuggestionStatusEnum == {"pending", "accepted", "rejected", "applied"}

\* json.loads(value): a str is decoded, any other object (the dict a JSON
\* column returns) raises TypeError
JsonLoadsColumn(value) ==
    IF value.py = "str" THEN [raised |-> FALSE, d |-> value.d]
    ELSE [raised |-> TRUE, d |-> value.d]

\* metadata.get(key) on a decoded metadata dict
DictGet(d, key) == IF key \in DOMAIN d THEN d[key] ELSE "None"

\* yaml.safe_load on the texts the model draws
yaml_safe_load(text) ==
    CASE text = "a: 1" -> [raised |-> FALSE, content |-> YDict(<<YStr("1")>>)]
      [] text = "a: 2" -> [raised |-> FALSE, content |-> YDict(<<YStr("2")>>)]
      [] OTHER -> [raised |-> TRUE, content |-> YNone]

\* inside the config directory, with an allowed extension
_validate_file_path(file_path) == file_path \in DOMAIN ConfigFiles

\* write_yaml_file: False for a path that is not valid, else the file is
\* written
write_yaml_file(file_path, content) ==
    IF ~_validate_file_path(file_path) THEN [ok |-> FALSE, written |-> written]
    ELSE [ok |-> TRUE,
          written |-> Append(written, [file_path |-> file_path, content |-> content])]

\* the response of a suggestion endpoint: what was asked, the HTTP status
\* and the suggestion's status when the request arrived
Reply(op, suggestion_id, code) ==
    [op |-> op, id |-> suggestion_id, code |-> code,
     was |-> IF suggestion_id <= Len(suggestions)
             THEN suggestions[suggestion_id].status ELSE "none"]

\* PATCH /suggestions/{suggestion_id}
UpdateSuggestion ==
    \E suggestion_id \in 1..(Len(suggestions) + 1), status \in SuggestionStatusEnum :
        /\ IF suggestion_id > Len(suggestions)
           THEN /\ reply' = Reply("update", suggestion_id, 404)
                /\ UNCHANGED suggestions
           ELSE /\ suggestions' = [suggestions EXCEPT ![suggestion_id].status = status]
                /\ reply' = Reply("update", suggestion_id, 200)
        /\ UNCHANGED <<settings, llm_profiles, scans, diffs, tasks, environ, calls,
                       cancelled, written, parseVars, engVars, callVars>>

\* POST /suggestions/{suggestion_id}/apply.  Every exception raised inside
\* the try, an HTTPException included, is answered with status 500.
ApplySuggestion ==
    \E suggestion_id \in 1..(Len(suggestions) + 1) :
        /\ LET suggestion == suggestions[suggestion_id]
               loaded == JsonLoadsColumn(suggestion.metadata_json)
               file_path == DictGet(loaded.d, "file_path")
               after_content == DictGet(loaded.d, "after")
               parsed == yaml_safe_load(after_content)
               success == write_yaml_file(file_path, parsed.content)
               code == IF suggestion_id > Len(suggestions) THEN 404
                       ELSE IF suggestion.status = "applied" THEN 400
                       ELSE IF suggestion.status # "accepted" THEN 400
                       ELSE IF loaded.raised THEN 500
                       ELSE IF ~Truthy(file_path) \/ ~Truthy(after_content) THEN 500
                       ELSE IF parsed.raised THEN 500
                       ELSE IF ~success.ok THEN 500
                       ELSE 200
           IN /\ reply' = Reply("apply", suggestion_id, code)
              /\ IF code = 200
                 THEN /\ written' = success.written
                      /\ diffs' = Append(diffs, [suggestion_id |-> suggestion_id,
                                                 file_path |-> file_path])
                      /\ suggestions' = [suggestions EXCEPT
                                            ![suggestion_id].status = "applied"]
                 ELSE UNCHANGED <<written, diffs, suggestions>>
        /\ UNCHANGED <<settings, llm_profiles, scans, tasks, environ, calls, cancelled,
                       parseVars, engVars, callVars>>

\* one scan, then the workflow on the suggestions it stored
CreateFirstScan == CreateScanUpTo(1)

NextSuggest ==
    \/ CreateFirstScan
    \/ ExecuteScanStart
    \/ TestConnectionReturns
    \/ AnalysisCallReturns
    \/ AnalysisCallRaises
    \/ UpdateSuggestion
    \/ ApplySuggestion

SpecSuggest == Init /\ [][NextSuggest]_vars

(***************************************************************************)
(* write_yaml_file on one target path of the config directory              *)
(* (specification SpecWrite).  A path holds a text or is "ABSENT".  The    *)
(* call is synchronous: each call is one step.                             *)
(***************************************************************************)
\* the text self.yaml.dump(content, file) writes
YamlDump(content) == <<"yaml", content>>

\* what a file holds when the dump raised after open(full_path, 'w') had
\* created or truncated it
Truncated == <<"partial">>

\* how the write step ends: the text is written, open raises before the file
\* exists, or the dump raises (disk full, a value the dumper cannot
\* represent) after open created the file
WriteOutcomes == {"written", "open_raises", "dump_raises"}

\* what the target and its backup hold before the first call: the target
\* exists or not, a backup of an earlier write exists or not
WInit ==
    /\ fs \in [pc : {"ready"}, target : {"ABSENT", <<"yaml", "v1">>},
                backup : {"ABSENT", <<"yaml", "v0">>}, n : {0},
                last : {[valid |-> TRUE, target |-> "ABSENT", backup |-> "ABSENT",
                         content |-> "none", result |-> "none"]}]
    /\ ScanIdle
    /\ PrsIdle
    /\ EngIdle
    /\ FacIdle
    /\ FltIdle
    /\ MoreIdle

\* full_path.rename(backup_path) when full_path.exists()
RenameToBackup(f) ==
    IF f.target # "ABSENT" THEN [f EXCEPT !.backup = f.target, !.target = "ABSENT"] ELSE f

\* the except branch: backup_path.rename(full_path) when backup_path.exists()
RestoreBackup(f) ==
    IF f.backup # "ABSENT" THEN [f EXCEPT !.target = f.backup, !.backup = "ABSENT"] ELSE f

\* YAMLIngestService.write_yaml_file(file_path, content); valid is the
\* verdict of _validate_file_path on file_path
WriteYamlFile ==
    /\ fs.pc = "ready"
    /\ fs.n < MaxWrites
    /\ \E valid \in BOOLEAN, content \in {"c1", "c2"}, outcome \in WriteOutcomes :
        LET call == [valid |-> valid, target |-> fs.target, backup |-> fs.backup,
                     content |-> content, result |-> "none"]
            moved == RenameToBackup(fs)
            Done(f, result) ==
                [f EXCEPT !.n = fs.n + 1, !.last = [call EXCEPT !.result = result]]
        IN fs' = IF ~valid THEN Done(fs, "False")
                 ELSE IF outcome = "written"
                 THEN Done([moved EXCEPT !.target = YamlDump(content)], "True")
                 ELSE IF outcome = "open_raises"
                 THEN Done(RestoreBackup(moved), "False")
                 ELSE Done(RestoreBackup([moved EXCEPT !.target = Truncated]), "False")
    /\ UNCHANGED <<parseVars, engVars, scanVars, fac, flt, moreVars>>

WNext == WriteYamlFile

SpecWrite == WInit /\ [][WNext]_vars

(***************************************************************************)
(* filter_files over the tree of the config directory (specification       *)
(* SpecFilter).  The directory is a fixed layout of which any subset of    *)
(* the files exists.                                                       *)
(***************************************************************************)
\* the files the config directory may hold, by relative path
LayoutFiles ==
    {"configuration.yaml", "secrets.yaml", "home.log", "packages/lights.yaml",
     "packages/deep/scene.yaml"}

\* the directories of the layout
LayoutDirs == {"packages", "packages/deep"}

\* path.iterdir() of a directory ("" is the config root), in the order of
\* sorted(items, key=(is_file, name.lower())): directories first
IterDir(dir) ==
    CASE dir = "" -> <<"packages", "configuration.yaml", "home.log", "secrets.yaml">>
      [] dir = "packages" -> <<"packages/deep", "packages/lights.yaml">>
      [] dir = "packages/deep" -> <<"packages/deep/scene.yaml">>
      [] OTHER -> <<>>

\* item.suffix.lower()
Suffix(path) ==
    IF path \in LayoutDirs THEN "" ELSE IF path = "home.log" THEN ".log" ELSE ".yaml"

\* the extensions build_tree_node lists
AllowedExtensions == {".yaml", ".yml", ".json", ".txt", ".md"}

\* fnmatch.fnmatch(name, pattern) on the paths of the layout: "*" also
\* matches "/"
fnmatch(name, pat) ==
    CASE pat = "*" -> TRUE
      [] pat = "*.yaml" -> Suffix(name) = ".yaml"
      [] pat = "*.yml" -> Suffix(name) = ".yml"
      [] OTHER -> name = pat

\* build_tree_node(path).children for a directory: the listed files and
\* the directories that have children, recursively
RECURSIVE Children(_, _, _, _)
Children(dir, files, i, acc) ==
    LET items == IterDir(dir)
        item == items[i]
        WithDir(sub) ==
            IF sub # <<>>
            THEN Append(acc, [path |-> item, type |-> "directory", children |-> sub])
            ELSE acc
    IN IF i > Len(items) THEN acc
       ELSE IF item \in LayoutDirs
       THEN Children(dir, files, i + 1, WithDir(Children(item, files, 1, <<>>)))
       ELSE IF item \in files /\ Suffix(item) \in AllowedExtensions
       THEN Children(dir, files, i + 1,
                     Append(acc, [path |-> item, type |-> "file", children |-> <<>>]))
       ELSE Children(dir, files, i + 1, acc)

\* get_file_tree()["files"]: the children of the root node
get_file_tree(files) == Children("", files, 1, <<>>)

\* any(fnmatch.fnmatch(file_path, pattern) for pattern in patterns)
AnyMatch(file_path, patterns) ==
    \E k \in 1..Len(patterns) : fnmatch(file_path, patterns[k])

\* filter_files: the loop over tree["files"]
filter_files(files, includes, excludes) ==
    LET Kept(tree) ==
            SelectSeq(tree, LAMBDA file_info :
                          AnyMatch(file_info.path, includes)
                          /\ ~AnyMatch(file_info.path, excludes))
        Paths(kept) == [k \in 1..Len(kept) |-> kept[k].path]
    IN Paths(Kept(get_file_tree(files)))

\* the include and exclude patterns of a call: the defaults of
\* _get_files_to_scan and patterns from the settings row
IncludePatterns == {<<"*.yaml", "*.yml">>, <<"*">>}
ExcludePatterns == {<<"secrets.yaml", "known_devices.yaml">>, <<>>}

FltInit ==
    /\ flt \in [pc : {"start"}, files : SUBSET LayoutFiles, includes : IncludePatterns,
                 excludes : ExcludePatterns, result : {<<>>}]
    /\ ScanIdle
    /\ PrsIdle
    /\ EngIdle
    /\ FacIdle
    /\ FsIdle
    /\ MoreIdle

\* self.yaml_service.filter_files(includes, excludes)
FilterFiles ==
    /\ flt.pc = "start"
    /\ flt' = [flt EXCEPT !.pc = "done",
                          !.result = filter_files(flt.files, flt.includes, flt.excludes)]
    /\ UNCHANGED <<parseVars, engVars, scanVars, fac, fs, moreVars>>

FltNext == FilterFiles

SpecFilter == FltInit /\ [][FltNext]_vars

(***************************************************************************)
(* Properties of the scan service (specification Spec).                    *)
(***************************************************************************)
Terminal == {"completed", "failed"}

StoredFor(rows, s) == {i \in 1..Len(rows) : rows[i].scan_id = s}

NoProfile(s) == ResolveProfile(scans[s]) = <<>>

\* the Factory yields no adapter for the scan's profile, or raises
NoProvider(s) ==
    /\ ~NoProfile(s)
    /\ create_provider(ResolveProfile(scans[s])[1]).kind \in {"None", "raises"}

\* test_connection gave a negative result, or raised
TestNegative(s) ==
    /\ calls[s] # <<>>
    /\ calls[s][1].purpose = "test"
    /\ calls[s][1].result \in {"empty", "raised"}

\* C3: when no profile can be resolved, or the Factory yields no adapter or
\* raises, or test_connection is negative or raises, execute_scan ends with
\* the scan failed, the engine is never invoked for it and no analysis
\* generate call is made.
C3_FailsWithoutAnalysis ==
    \A s \in 1..Len(tasks) :
        (tasks[s].pc = "returned" /\ (NoProfile(s) \/ NoProvider(s) \/ TestNegative(s)))
        => /\ scans[s].status = "failed"
           /\ tasks[s].result = "False"
           /\ tasks[s].invoked = <<>>
           /\ \A i \in 1..Len(calls[s]) : calls[s][i].purpose = "test"

\* C3, reached: one scan has ended on a negative connection test and
\* another on a Factory that gave no adapter
C3_Witness ==
    \E s1, s2 \in 1..Len(tasks) :
        /\ tasks[s1].pc = "returned" /\ TestNegative(s1)
        /\ tasks[s2].pc = "returned" /\ NoProvider(s2)

RowsOf(all_suggestions) ==
    [i \in 1..Len(all_suggestions) |-> SuggestionRow(all_suggestions[i])]

\* the suggestions stored for a scan, in the order of their ids
StoredSeq(s) == SelectSeq(suggestions, LAMBDA row : row.scan_id = s)

\* C12: when the engine invocation for one requested analysis kind raises,
\* every requested kind is still invoked, what the other kinds produced is
\* persisted and the scan ends completed.
C12_KindFailureIsolated ==
    \A s \in 1..Len(tasks) :
        (tasks[s].pc = "returned" /\ tasks[s].raised # <<>>)
        => /\ tasks[s].invoked = tasks[s].analysis_types
           /\ StoredSeq(s) = RowsOf(tasks[s].all_suggestions)
           /\ tasks[s].result = "True"
           /\ scans[s].status = "completed"

\* C12, reached: the optimization analysis of a scan raised, its automation
\* analysis was invoked after it and its suggestion is stored
C12_Witness ==
    \E s \in 1..Len(tasks) :
        /\ tasks[s].pc = "returned"
        /\ tasks[s].raised = <<"optimization">>
        /\ tasks[s].invoked = <<"optimization", "automation">>
        /\ StoredSeq(s) # <<>>
        /\ scans[s].status = "completed"

StoredMetadata(i) == suggestions[i].metadata_json.d

BracketFree(c) == \A i \in 1..Len(c) : c[i].t \notin {"[", "]"}

IsRecord(e) == Len(e) = 1 /\ e[1].t = "obj"

\* the record-shaped elements of the array, in array order
Records(es) == SelectSeq(es, IsRecord)

DefaultTitle(kind) ==
    IF kind = "optimization" THEN "Optimization Suggestion" ELSE "Automation Suggestion"

\* the impact a record is to get: its own text, else the default
WantedImpact(f) == IF IsStr(f.impact) THEN Lower(f.impact) ELSE "medium"

\* out holds one suggestion per record of recs, in order, with the named
\* defaults for a missing title and a missing or unusable impact
OnePerRecord(out, recs, kind) ==
    /\ Len(out) = Len(recs)
    /\ \A k \in 1..Len(recs) :
        /\ k <= Len(out)
        /\ out[k].title = Get(recs[k][1].f.title, DefaultTitle(kind))
        /\ out[k].impact = WantedImpact(recs[k][1].f)

\* C9: for every decodable top-level array in the model output (here with
\* commentary that holds no bracket, so that the array is what is decoded)
\* the parser returns exactly one suggestion per record-shaped element, in
\* array order; missing or unusable fields get the named defaults and a
\* non-record element is skipped without any other element being dropped.
C9_OneSuggestionPerRecord ==
    (/\ prs.pc = "done"
     /\ prs.inp.shape = "array"
     /\ BracketFree(prs.inp.prefix)
     /\ BracketFree(prs.inp.suffix))
    => OnePerRecord(prs.out, Records(prs.inp.elems), prs.kind)

\* a record all of whose present fields are text
TextRecord(e) ==
    /\ IsRecord(e)
    /\ \A k \in DOMAIN e[1].f : e[1].f[k] = "ABSENT" \/ IsStr(e[1].f[k])

\* C10: for any model output <commentary> <well-formed JSON array of
\* records> <commentary>, whatever the commentary contains (square brackets
\* included), the parser extracts the array and returns one suggestion per
\* record, a record with only a title getting impact medium.
C10_CommentaryTolerated ==
    (/\ prs.pc = "done"
     /\ prs.inp.shape = "array"
     /\ \A k \in 1..Len(prs.inp.elems) : TextRecord(prs.inp.elems[k]))
    => OnePerRecord(prs.out, prs.inp.elems, prs.kind)

FullPrompt(file_paths, kind) ==
    LET context == _prepare_analysis_context(read_multiple_files(file_paths), kind) IN
    IF kind = "optimization" THEN _build_optimization_prompt(context)
    ELSE _build_automation_prompt(context)

\* C8: for every analysis kind (optimization and automation), analyze
\* issues exactly one generate call carrying the full prompt when the full
\* prompt is estimated to fit the context window, and otherwise splits the
\* input and issues exactly one generate call per chunk, in chunk order,
\* each carrying the system message and that chunk; no call is retried.
C8_OneCallPerChunk ==
    (/\ eng.pc = "done"
     /\ eng.analysis_type \in {"optimization", "automation"}
     /\ read_multiple_files(eng.file_paths) # <<>>)
    => LET full == FullPrompt(eng.file_paths, eng.analysis_type) IN
       IF can_handle_context(full, eng.context_tokens)
       THEN eng.calls = <<Messages(eng.analysis_type, full)>>
       ELSE /\ eng.chunker = "returned"
            /\ eng.chunks # <<>>
            /\ eng.calls = [i \in 1..Len(eng.chunks) |->
                              Messages(eng.analysis_type, eng.chunks[i])]

\* the concatenation of a sequence of sequences
RECURSIVE Flatten(_)
Flatten(ss) == IF ss = <<>> THEN <<>> ELSE Head(ss) \o Flatten(Tail(ss))

InRegistry(profile) == profile.provider \in DOMAIN get_supported_providers

\* the vendor requires a credential
RequiresKey(profile) == InRegistry(profile) /\ get_supported_providers[profile.provider]

\* the environment default of the vendor's credential, None when the
\* vendor has none
EnvDefaultKey(profile) ==
    IF ~Truthy(profile.provider) \/ get_llm_config(profile.provider).raised THEN "None"
    ELSE get_llm_config(profile.provider).api_key

\* C14: for every vendor of the registry, create_provider on a profile with
\* an endpoint, a model identifier and, when the vendor requires one, a
\* credential returns an adapter: it neither returns None nor raises.
C14_RegistryVendorsCreate ==
    (/\ fac.pc = "done"
     /\ InRegistry(fac.profile)
     /\ Truthy(fac.profile.endpoint)
     /\ Truthy(fac.profile.model_name)
     /\ RequiresKey(fac.profile) => Truthy(fac.profile.api_key))
    => fac.made.kind = "adapter"

ExpectedKey(profile) ==
    IF Truthy(profile.api_key)
    THEN IF is_api_key_encrypted(profile.api_key) THEN decrypt_api_key(profile.api_key)
         ELSE profile.api_key
    ELSE EnvDefaultKey(profile)

\* C16: the adapter create_provider builds carries the decryption of the
\* profile's credential when that is ciphertext, the profile's credential
\* unchanged when it is not recognised as ciphertext or does not decrypt
\* (creation still succeeds), and the environment default only when the
\* profile has no credential.
C16_CredentialResolution ==
    /\ (fac.pc = "done" /\ fac.made.kind = "adapter")
          => fac.made.adapter.api_key = ExpectedKey(fac.profile)
    /\ (/\ fac.pc = "done"
        /\ InRegistry(fac.profile)
        /\ Truthy(fac.profile.endpoint)
        /\ Truthy(fac.profile.model_name)
        /\ Truthy(fac.profile.api_key))
          => fac.made.kind = "adapter"

(***************************************************************************)
(* Properties of write_yaml_file (specification SpecWrite).                *)
(***************************************************************************)
\* C17: when write_yaml_file returns failure the target holds exactly what
\* it held before the call (still absent if it was absent), whatever the
\* files were before, a backup of an earlier write included; when it
\* returns success on a file that existed, the backup holds the file's
\* previous text.
C17_FailedWriteLeavesTarget ==
    /\ fs.last.result = "False" => fs.target = fs.last.target
    /\ (fs.last.result = "True" /\ fs.last.target # "ABSENT")
          => fs.backup = fs.last.target

(***************************************************************************)
(* Properties of filter_files (specification SpecFilter).                  *)
(***************************************************************************)
\* the files with a whitelisted extension, at any depth, whose relative
\* path matches an include pattern and no exclude pattern
WantedFiles(files, includes, excludes) ==
    {f \in files : /\ Suffix(f) \in AllowedExtensions
                   /\ AnyMatch(f, includes)
                   /\ ~AnyMatch(f, excludes)}

\* C18: without an explicit subset, the file list a scan resolves is
\* exactly the set of files with a whitelisted extension anywhere under the
\* config root that match an include pattern and no exclude pattern;
\* directories are never returned.
C18_FilterResolvesAllDepths ==
    flt.pc = "done"
    => /\ Range(flt.result) = WantedFiles(flt.files, flt.includes, flt.excludes)
       /\ Range(flt.result) \cap LayoutDirs = {}

\* the position of an analysis kind in the request of a scan
KindIndex(s, kind) ==
    CHOOSE k \in 1..Len(tasks[s].analysis_types) : tasks[s].analysis_types[k] = kind

\* what the generate calls of a scan gave, call after call
GotSuggestions(s) ==
    Flatten([i \in 1..Len(tasks[s].got) |-> tasks[s].got[i].suggestions])

\* the array a response carries, <<>> for prose and for a call that raised
ArrayOf(resp) ==
    IF \E a \in ScanArrays : ArrayText(a) = resp
    THEN CHOOSE a \in ScanArrays : ArrayText(a) = resp
    ELSE <<>>

ChunkPaths(chunks) == Flatten([i \in 1..Len(chunks) |-> chunks[i].paths])

\* C20: for every non-empty file set and every budget, the chunker
\* (_chunk_analysis_context) returns at least one chunk, no chunk is empty,
\* every file of the input appears in exactly one chunk, and the files
\* appear across the chunk sequence in their input order.
C20_ChunksCoverFilesOnce ==
    (/\ eng.pc # "idle"
     /\ eng.chunker # "notcalled"
     /\ read_multiple_files(eng.file_paths) # <<>>)
    => /\ eng.chunker = "returned"
       /\ Len(eng.chunks) >= 1
       /\ \A i \in 1..Len(eng.chunks) : eng.chunks[i].paths # <<>>
       /\ ChunkPaths(eng.chunks) = read_multiple_files(eng.file_paths)

(***************************************************************************)
(* Further properties of the suggestion engine (specification SpecEngine). *)
(***************************************************************************)
\* the texts that are leaves of a parsed YAML tree, at any depth
RECURSIVE StringLeaves(_)
StringLeaves(tree) ==
    IF tree.k = "str" THEN {tree.s}
    ELSE UNION {StringLeaves(tree.items[i]) : i \in 1..Len(tree.items)}

\* the entity-identifier-shaped leaves of the readable files of a file list
EntityLeaves(file_paths) ==
    {e \in UNION {StringLeaves(ConfigFiles[p].content) :
                     p \in Range(read_multiple_files(file_paths))} :
        LooksLikeEntity(e)}

\* C27: for automation analysis, the extracted entity list is sorted, has
\* no duplicates, and contains exactly the entity-identifier-shaped strings
\* that occur as string leaf values anywhere in any file's parsed YAML
\* tree, including files whose top level is a list and strings nested
\* inside lists of lists.
C27_EntitiesOfEveryLeaf ==
    (/\ eng.pc \in {"generating", "done"}
     /\ eng.analysis_type = "automation"
     /\ eng.chunks # <<>>)
    => LET ents == eng.chunks[1].entities IN
       /\ \A i, j \in 1..Len(ents) :
             i < j => StrInfo(ents[i]).rank < StrInfo(ents[j]).rank
       /\ Range(ents) = EntityLeaves(eng.file_paths)

ImpactLevels == {"high", "medium", "low"}

\* C25: every suggestion record returned by the response parsers has impact
\* in {high, medium, low} and status pending, for any decoded model output.
C25_ImpactAndStatusInRange ==
    prs.pc = "done"
    => \A i \in 1..Len(prs.out) :
          /\ prs.out[i].impact \in ImpactLevels
          /\ prs.out[i].status = "pending"

(***************************************************************************)
(* Further properties of the scan service (specification Spec).            *)
(***************************************************************************)
\* the generate calls of the analyses of a scan (not its connection test)
AnalysisCalls(s) == SelectSeq(calls[s], LAMBDA c : c.purpose # "test")

C29_SuggestionsOnlyWhenCompleted ==
    \A s \in 1..Len(scans) :
        StoredFor(suggestions, s) # {} => scans[s].status = "completed"

\* C29, reached: a scan that cancel_scan had marked failed while it was
\* running has persisted suggestions
C29_Witness ==
    \E s \in cancelled :
        /\ StoredFor(suggestions, s) # {}
        /\ tasks[s].pc = "returned"

(***************************************************************************)
(* Properties of execute_scan under raising persistence operations         *)
(* (specification SpecLive).                                               *)
(***************************************************************************)
\* C24: every scan for which execute_scan is started on an existing record
\* eventually reaches status completed or failed, when every provider call
\* and every persistence operation either returns or raises; and whenever
\* execute_scan has returned, the persisted status of its scan is not
\* running.
C24_ReachesTerminalStatus ==
    /\ [](\A s \in 1..Len(tasks) :
            tasks[s].pc = "returned" => scans[s].status # "running")
    /\ (Len(tasks) >= 1) ~> (Len(scans) >= 1 /\ scans[1].status \in Terminal)

(***************************************************************************)
(* Properties of cancel_scan (specification SpecCancel).                   *)
(***************************************************************************)
\* C22: cancel_scan changes a scan only when its status is running: it then
\* sets the status to failed, sets ended_at and returns true; for a scan
\* that is pending, completed or failed, or for an unknown scan id, it
\* returns false and leaves every scan record unchanged.
C22_CancelOnlyRunning ==
    (cn.pc = "ready" /\ cn.n > 0)
    => IF /\ cn.last.scan_id \in 1..Len(cn.last.before)
          /\ cn.last.before[cn.last.scan_id].status = "running"
       THEN /\ cn.last.result = TRUE
            /\ Len(cn.scans) = Len(cn.last.before)
            /\ \A i \in 1..Len(cn.scans) :
                  IF i = cn.last.scan_id
                  THEN /\ cn.scans[i].status = "failed"
                       /\ cn.scans[i].ended_at = "set"
                       /\ cn.scans[i].llm_profile_id = cn.last.before[i].llm_profile_id
                       /\ cn.scans[i].file_count = cn.last.before[i].file_count
                  ELSE cn.scans[i] = cn.last.before[i]
       ELSE /\ cn.last.result = FALSE
            /\ cn.scans = cn.last.before

\* C22, reached: a running scan was cancelled by the second call made on
\* a table that also holds a pending scan, which stayed pending
C22_Witness ==
    /\ cn.pc = "ready"
    /\ cn.n = 2
    /\ cn.last.scan_id \in 1..Len(cn.scans)
    /\ cn.last.result = TRUE
    /\ cn.last.before[cn.last.scan_id].status = "running"
    /\ cn.scans[cn.last.scan_id].status = "failed"
    /\ \E j \in 1..Len(cn.scans) : cn.scans[j].status = "pending"

(***************************************************************************)
(* Properties of chunk_text (specification SpecChunkText).                 *)
(***************************************************************************)
\* C26: chunk_text terminates for every input text, every context window
\* > 0 and every overlap >= 0: the start index strictly increases on every
\* loop iteration, so a finite list of chunks is returned.
C26_ChunkTextTerminates ==
    /\ [][(ck.pc = "loop" /\ ck'.pc = "loop" /\ ck'.n = ck.n + 1)
             => ck'.start > ck.start]_vars
    /\ <>(ck.pc = "done")

(***************************************************************************)
(* Properties of stream_generate (specification SpecStream).               *)
(***************************************************************************)
\* the lines that are the vendor's end-of-stream sentinel
Sentinels == {"sentinel", "sentinel_text"}

\* the places of the error fragments among the fragments yielded
ErrorFragments(out) == {k \in 1..Len(out) : out[k].kind = "error"}

\* C21: for every adapter, stream_generate produces a finite sequence of
\* text fragments: no fragment coming from a line received after the
\* vendor's end-of-stream sentinel is yielded, and when the request fails
\* before or in the middle of the stream the sequence ends with exactly one
\* inline error fragment and no exception propagates to the consumer.
C21_StreamEndsAtSentinelOrError ==
    sg.pc # "idle"
    => /\ sg.pc \in {"request", "streaming", "closed"}
       /\ Len(sg.out) <= Len(sg.lines) + 1
       /\ \A k \in 1..Len(sg.out) :
             sg.out[k].kind = "text"
             => \A j \in 1..(sg.out[k].line - 1) : sg.lines[j] \notin Sentinels
       /\ \A k \in ErrorFragments(sg.out) : k = Len(sg.out)
       /\ sg.failed => (sg.pc = "closed" /\ ErrorFragments(sg.out) = {Len(sg.out)}
                                          /\ sg.out # <<>>)
       /\ ~sg.failed => ErrorFragments(sg.out) = {}

\* C21, reached: the Ollama adapter yielded the text of a line and of the
\* line with done = true, and ended without yielding the text of the line
\* that came after it
C21_Witness ==
    /\ sg.pc = "closed"
    /\ sg.adapter = "ollama"
    /\ sg.lines = <<"text", "sentinel_text", "text">>
    /\ Len(sg.out) = 2
    /\ ~sg.failed


\* ---------------------------------------------------------------------
\* ScanConnectionManager (api/websocket.py).  The event loop runs one
\* coroutine at a time and switches between them only at an await: connect
\* after its accept, disconnect and the part of send_to_scan between two
\* sends are single steps.
\* ---------------------------------------------------------------------

\* the websockets that are opened; each endpoint call has a websocket of its own
MaxSockets == 3
WebSockets == 1..MaxSockets

\* the scan ids of the websocket paths
SocketScans == 1..MaxScans

\* self.scan_connections = {}; self.connection_scans = {}
EmptyManager == [scan_connections |-> <<>>, connection_scans |-> <<>>]

\* ScanConnectionManager.connect after the accept
connect(m, websocket, scan_id) ==
    LET conns == IF scan_id \in DOMAIN m.scan_connections
                 THEN m.scan_connections
                 ELSE (scan_id :> {}) @@ m.scan_connections
    IN  [scan_connections |-> [conns EXCEPT ![scan_id] = @ \cup {websocket}],
         connection_scans |-> (websocket :> scan_id) @@ m.connection_scans]

\* ScanConnectionManager.disconnect
disconnect(m, websocket) ==
    IF websocket \notin DOMAIN m.connection_scans THEN m
    ELSE
      LET scan_id == m.connection_scans[websocket]
          rest == m.scan_connections[scan_id] \ {websocket}
          scans_left == DOMAIN m.scan_connections \ {scan_id}
          sockets_left == DOMAIN m.connection_scans \ {websocket}
      IN  [scan_connections |->
               IF rest = {}
               THEN [s \in scans_left |-> m.scan_connections[s]]
               ELSE [m.scan_connections EXCEPT ![scan_id] = rest],
           connection_scans |-> [w \in sockets_left |-> m.connection_scans[w]]]

\* for websocket in disconnected: self.disconnect(websocket)
RECURSIVE DisconnectAll(_, _)
DisconnectAll(m, disconnected) ==
    IF disconnected = {} THEN m
    ELSE LET websocket == CHOOSE w \in disconnected : TRUE
         IN  DisconnectAll(disconnect(m, websocket), disconnected \ {websocket})

\* no send_to_scan is running
NoSend == [scan_id |-> 0, used |-> 0, visited |-> {}, current |-> 0,
           detached |-> FALSE, mutated |-> FALSE, disconnected |-> {}]

WsInit ==
    /\ ws = [pc |-> "ready", manager |-> EmptyManager,
             endpoint |-> [w \in WebSockets |-> "new"], send |-> NoSend]
    /\ PrsIdle /\ EngIdle /\ ScanIdle /\ TablesIdle
    /\ FacIdle /\ FsIdle /\ FltIdle
    /\ CnIdle /\ SgIdle /\ CkIdle

WsOthers == <<parseVars, engVars, scanVars, fac, fs, flt, cn, sg, ck>>

\* the set object the running send_to_scan iterates over is the one a connect
\* or disconnect for scan_id changes, unless disconnect has deleted it
Iterated(scan_id) ==
    ws.pc = "sending" /\ ws.send.scan_id = scan_id /\ ~ws.send.detached

\* websocket_scan_endpoint: await scan_manager.connect(websocket, scan_id)
Connect(websocket, scan_id) ==
    /\ ws.pc \in {"ready", "sending", "returned", "raised"}
    /\ ws.endpoint[websocket] = "new"
    /\ ws' = [ws EXCEPT !.endpoint[websocket] = "open",
                        !.manager = connect(@, websocket, scan_id),
                        !.send.mutated = @ \/ Iterated(scan_id)]
    /\ UNCHANGED WsOthers

\* await websocket.accept() raises: nothing is registered
AcceptRaises(websocket) ==
    /\ ws.pc \in {"ready", "sending", "returned", "raised"}
    /\ ws.endpoint[websocket] = "new"
    /\ ws' = [ws EXCEPT !.endpoint[websocket] = "closed"]
    /\ UNCHANGED WsOthers

\* websocket_scan_endpoint: except ...: scan_manager.disconnect(websocket)
Disconnect(websocket) ==
    /\ ws.pc \in {"ready", "sending", "returned", "raised"}
    /\ ws.endpoint[websocket] = "open"
    /\ LET registered == websocket \in DOMAIN ws.manager.connection_scans
           scan_id == IF registered THEN ws.manager.connection_scans[websocket] ELSE 0
           after == disconnect(ws.manager, websocket)
           hit == registered /\ Iterated(scan_id)
       IN  ws' = [ws EXCEPT !.endpoint[websocket] = "closed",
                            !.manager = after,
                            !.send.mutated = @ \/ hit,
                            !.send.detached = @ \/ (hit /\ scan_id \notin DOMAIN after.scan_connections)]
    /\ UNCHANGED WsOthers

\* the for statement asks the set iterator for the next websocket.  The
\* iterator compares the size of its set with the size at the start of the
\* loop and raises RuntimeError when they differ; a deleted set is empty.  It
\* then gives an element it has not passed; after a change that left the size
\* the same it may have passed the slot of a new element already.
IterNext(m, send, disconnected) ==
    LET size == IF send.detached THEN 0 ELSE Cardinality(m.scan_connections[send.scan_id])
        ahead == IF send.detached THEN {} ELSE m.scan_connections[send.scan_id] \ send.visited
        after == [send EXCEPT !.disconnected = disconnected]
    IN  IF size # send.used
        THEN {[pc |-> "raised", manager |-> m, send |-> NoSend]}
        ELSE {[pc |-> "sending", manager |-> m,
               send |-> [after EXCEPT !.current = w, !.visited = @ \cup {w}]] : w \in ahead}
             \cup (IF ahead = {} \/ send.mutated
                   THEN {[pc |-> "returned", manager |-> DisconnectAll(m, disconnected),
                          send |-> NoSend]}
                   ELSE {})

\* send_to_scan(scan_id, message) up to its first await
SendToScan(scan_id) ==
    /\ ws.pc \in {"ready", "returned", "raised"}
    /\ IF scan_id \notin DOMAIN ws.manager.scan_connections
       THEN ws' = [ws EXCEPT !.pc = "returned"]
       ELSE \E r \in IterNext(ws.manager,
                              [NoSend EXCEPT !.scan_id = scan_id,
                                  !.used = Cardinality(ws.manager.scan_connections[scan_id])],
                              {}) :
                ws' = [ws EXCEPT !.pc = r.pc, !.manager = r.manager, !.send = r.send]
    /\ UNCHANGED WsOthers

\* await websocket.send_text(message_str) returns, and the loop goes on
SendTextReturns ==
    /\ ws.pc = "sending"
    /\ \E r \in IterNext(ws.manager, ws.send, ws.send.disconnected) :
           ws' = [ws EXCEPT !.pc = r.pc, !.manager = r.manager, !.send = r.send]
    /\ UNCHANGED WsOthers

\* await websocket.send_text(message_str) raises: except: disconnected.append(websocket)
SendTextRaises ==
    /\ ws.pc = "sending"
    /\ \E r \in IterNext(ws.manager, ws.send, ws.send.disconnected \cup {ws.send.current}) :
           ws' = [ws EXCEPT !.pc = r.pc, !.manager = r.manager, !.send = r.send]
    /\ UNCHANGED WsOthers

WsNext ==
    \/ \E websocket \in WebSockets, scan_id \in SocketScans : Connect(websocket, scan_id)
    \/ \E websocket \in WebSockets : AcceptRaises(websocket)
    \/ \E websocket \in WebSockets : Disconnect(websocket)
    \/ \E scan_id \in SocketScans : SendToScan(scan_id)
    \/ SendTextReturns
    \/ SendTextRaises

SpecWs == WsInit /\ [][WsNext]_vars

\* a websocket is in scan_connections[s] exactly when connection_scans maps it
\* to s, and no scan id maps to an empty set
MapsConsistent(m) ==
    /\ \A w \in WebSockets, s \in SocketScans :
           (s \in DOMAIN m.scan_connections /\ w \in m.scan_connections[s])
               <=> (w \in DOMAIN m.connection_scans /\ m.connection_scans[w] = s)
    /\ \A s \in DOMAIN m.scan_connections : m.scan_connections[s] # {}

\* C28: send_to_scan never raises to its caller, whatever connect and
\* disconnect calls for the same scan run while it is suspended in a send, and
\* after any sequence of connect, disconnect and send_to_scan a websocket is in
\* scan_connections[s] exactly when connection_scans maps it to s and no scan
\* id maps to an empty set.
C28_SendNeverRaisesMapsConsistent ==
    ws.pc # "idle" => (ws.pc # "raised" /\ MapsConsistent(ws.manager))

====
